---- MODULE Spec2Model ----
(***************************************************************************)
(* A model of the core of the Titanium code processor (lib/base): the      *)
(* execution-context stack, ambiguous blocks, skipped mode, the exception  *)
(* flow controller, declarative bindings and object property definition.   *)
(*                                                                         *)
(* The engine is single threaded and recursive.  The recursion is modelled *)
(* with an explicit stack of frames: one frame per running                 *)
(* FunctionType.callFunction, processInSkippedMode, wrapNativeCall wrapper *)
(* or EvalFunction.callFunction.  An action is the code of one handler     *)
(* between two calls into nested program code.                             *)
(***************************************************************************)
EXTENDS Integers, Sequences, FiniteSets, TLC

\* ------------------------------------------------------------------ bounds
MaxCtx   == 2   \* execution contexts alive, the global one included
MaxDepth == 2   \* nested running handlers
MaxSkip  == 2   \* skipped sections open at the same time
MaxBody  == 2   \* statements in a function body
MaxAmb   == 1   \* nesting of ambiguous blocks in one context
MaxTry   == 1   \* nesting of try/catch
MaxExc   == 2   \* exception objects alive at the same time
MaxIndex == 2   \* largest integer property name of an array
MaxObjects == 3 \* objects linked by objectPrototype
Bits     == 4   \* width of the integer conversions (the program's 32)
MaxNodes == 2   \* AST nodes whose marks are followed
MaxRules == 3   \* rule runs kept in the event log

VARIABLES
  options,            \* Runtime.options
  contextStack,       \* contextStack: sequence of context ids, top last
  functionContextCount,
  ctxs,               \* every ExecutionContext ever created, by id
  envs,               \* every LexicalEnvironment/environment record, by id
  obj,                \* one ObjectType instance with one property name "p"
  tryCatch,
  exception,          \* Runtime._exception: id of the stored exception, 0 if none
  frames,             \* running handlers, innermost last
  pending,            \* host exception in flight
  last                \* what the last operation did (observation only)

vars == << options, contextStack, functionContextCount, ctxs, envs, obj,
           tryCatch, exception, frames, pending, last >>

\* ------------------------------------------------------------------ values
\* A BaseType instance: its type tag, its primitive value and _closure, the
\* id of the context that was current when it was constructed.
NoVal == [type |-> "None", val |-> 0, closure |-> 0]

UndefinedType(c) == [type |-> "Undefined", val |-> 0, closure |-> c]

UnknownType(c) == [type |-> "Unknown", val |-> 0, closure |-> c]

NumberType(n, c) == [type |-> "Number", val |-> n, closure |-> c]

FunctionType(c) == [type |-> "Function", val |-> 0, closure |-> c]

type(v) == v.type

\* ------------------------------------------------------- the current world
\* The helpers below read the context stack, the contexts and the
\* environment records of a world w, so that a handler can evaluate them on
\* the intermediate states it goes through.
World == [stack |-> contextStack, ctxs |-> ctxs, envs |-> envs]

getCurrentContext(w) == w.stack[Len(w.stack)]

currentLexEnv(w) == w.ctxs[getCurrentContext(w)].lexEnv

isAmbiguousBlock(w) == w.ctxs[getCurrentContext(w)].amb # 0

SkipStackOf(w, c) == w.envs[w.ctxs[c].lexEnv].skipStack

isSkippedMode(w) ==
  \E i \in 1..Len(w.stack) : Len(SkipStackOf(w, w.stack[i])) > 0

isLocalSkippedMode(w) == Len(SkipStackOf(w, getCurrentContext(w))) > 0

RECURSIVE SkippedSectionFrom(_, _)
SkippedSectionFrom(w, i) ==
  IF i = 0 THEN 0
  ELSE LET s == SkipStackOf(w, w.stack[i])
       IN  IF Len(s) > 0 THEN s[Len(s)] ELSE SkippedSectionFrom(w, i - 1)

getSkippedSection(w) == SkippedSectionFrom(w, Len(w.stack))

RECURSIVE LocalWalk(_, _, _)
LocalWalk(w, e, target) ==
  IF e = 0 THEN TRUE
  ELSE IF target = e THEN TRUE
  ELSE IF w.envs[e].ambiguousContext THEN FALSE
  ELSE LocalWalk(w, w.envs[e].outer, target)

isLocal(w, v) == LocalWalk(w, currentLexEnv(w), w.ctxs[v.closure].lexEnv)

RECURSIVE SkippedLocalWalk(_, _, _)
SkippedLocalWalk(w, i, target) ==
  IF i = 0 THEN TRUE
  ELSE IF target = w.ctxs[w.stack[i]].lexEnv THEN TRUE
  ELSE IF Len(SkipStackOf(w, w.stack[i])) > 0 THEN FALSE
  ELSE SkippedLocalWalk(w, i - 1, target)

isSkippedLocal(w, closure) ==
  SkippedLocalWalk(w, Len(w.stack), w.ctxs[closure].lexEnv)

RECURSIVE ClosureWalk(_, _, _)
ClosureWalk(w, e, target) ==
  IF e = 0 THEN FALSE
  ELSE IF e = target THEN TRUE
  ELSE ClosureWalk(w, w.envs[e].outer, target)

updateClosure(w, v, targetClosure) ==
  IF ClosureWalk(w, w.ctxs[v.closure].lexEnv, w.ctxs[targetClosure].lexEnv)
  THEN [v EXCEPT !.closure = targetClosure]
  ELSE v

\* ------------------------------------------------------------- exceptions
NoPending == [kind |-> "none", exc |-> 0]

\* A variant of the operation below that does not consult exactMode.
handleRecoverableIgnoringExactMode(w, opts) ==
  IF ~isSkippedMode(w)
  THEN IF opts.nativeExceptionRecovery THEN "reported" ELSE "thrown"
  ELSE "dropped"

\* What handleRecoverableNativeException does with an error in world w.
handleRecoverableNativeException(w, opts) ==
  IF ~isSkippedMode(w)
  THEN IF opts.nativeExceptionRecovery /\ ~opts.exactMode
       THEN "reported"
       ELSE "thrown"
  ELSE "dropped"

inTryCatch == tryCatch # 0

\* ------------------------------------------------- declarative bindings
\* One binding of a DeclarativeEnvironmentRecord (the model tracks the one
\* name "x" per record).  alt is alternateValues: skipped-section id -> value.
NoBinding ==
  [exists |-> FALSE, value |-> NoVal, alt |-> << >>, isDeletable |-> FALSE,
   isMutable |-> FALSE, isInitialized |-> "U"]

SetAlt(alt, id, v) ==
  [k \in (DOMAIN alt) \cup {id} |-> IF k = id THEN v ELSE alt[k]]

createMutableBinding(w, d) ==
  [exists |-> TRUE, value |-> UndefinedType(getCurrentContext(w)),
   alt |-> << >>, isDeletable |-> d, isMutable |-> TRUE,
   isInitialized |-> "U"]

\* createImmutableBinding(n): the new binding, or a host Error when the
\* record already has one.
createImmutableBinding(w, b) ==
  IF b.exists THEN [b |-> b, raise |-> "host"]
  ELSE [b |-> [exists |-> TRUE, value |-> UndefinedType(getCurrentContext(w)),
               alt |-> << >>, isDeletable |-> FALSE, isMutable |-> FALSE,
               isInitialized |-> "F"],
        raise |-> "none"]

\* initializeImmutableBinding(n, v)
initializeImmutableBinding(b, v) ==
  IF ~b.exists THEN [b |-> b, raise |-> "host"]
  ELSE IF b.isInitialized # "F" THEN [b |-> b, raise |-> "host"]
  ELSE [b |-> [b EXCEPT !.value = v, !.isInitialized = "T"], raise |-> "none"]

\* The test both setMutableBinding and _addProperty make before a write:
\* TRUE when the write goes to alternateValues[getSkippedSection()].
WritesAlternate(w, closure) ==
  isLocalSkippedMode(w) \/ ~isSkippedLocal(w, closure)

\* Variants of the test below, each with one plausible slip: the ambiguous
\* block is not consulted; a function context entered from an ambiguous block
\* is treated as an ambiguous block.
StoresUnknownIgnoringBlock(w, v, bound) ==
  type(v) = "Unknown" \/ ~isLocal(w, bound)

StoresUnknownInAmbiguousContext(w, v, bound) ==
  \/ type(v) = "Unknown" \/ ~isLocal(w, bound) \/ isAmbiguousBlock(w)
  \/ w.envs[currentLexEnv(w)].ambiguousContext

\* The test setMutableBinding makes on the value it is about to store.
StoresUnknown(w, v, bound) ==
  type(v) = "Unknown" \/ ~isLocal(w, bound) \/ isAmbiguousBlock(w)

\* setMutableBinding(n, v, s) on binding b.  The result carries the new
\* binding, the exception the call raises ("none", "engine", "host") and
\* what handleRecoverableNativeException did if it was called.
setMutableBinding(w, opts, b, v, s) ==
  LET cur       == getCurrentContext(w)
      h         == handleRecoverableNativeException(w, opts)
      immut     == ~b.isMutable
      b1        == IF immut THEN [b EXCEPT !.value = UnknownType(cur)] ELSE b
      toUnknown == StoresUnknown(w, v, b1.value)
      stored    == IF toUnknown THEN UnknownType(cur) ELSE v
      b2        == IF WritesAlternate(w, b1.value.closure)
                   THEN [b1 EXCEPT !.alt = SetAlt(@, getSkippedSection(w), stored)]
                   ELSE [b1 EXCEPT !.value = stored]
  IN  IF ~b.exists
        THEN [b |-> b, raise |-> "host", handled |-> "none"]
      ELSE IF immut /\ ~s
        THEN [b |-> b, raise |-> "none", handled |-> "none"]
      ELSE IF immut /\ h = "thrown"
        THEN [b |-> b, raise |-> "engine", handled |-> h]
      ELSE IF immut /\ opts.exactMode
        THEN [b |-> b, raise |-> "host", handled |-> h]
      ELSE IF toUnknown /\ opts.exactMode
        THEN [b |-> b1, raise |-> "host", handled |-> IF immut THEN h ELSE "none"]
      ELSE [b |-> b2, raise |-> "none", handled |-> IF immut THEN h ELSE "none"]

\* getBindingValue(n, s) without the alternate flag.
getBindingValue(b) == b.value

\* --------------------------------------------------- property descriptors
\* A descriptor object.  A field that is undefined in the host object is
\* NoVal (value, get, set) or "U" (the flags); present is FALSE for the host
\* value undefined itself.
Desc(v, w, g, s, e, c) ==
  [present |-> TRUE, value |-> v, writable |-> w, get |-> g, set |-> s,
   enumerable |-> e, configurable |-> c]

NoDesc == [Desc(NoVal, "U", NoVal, NoVal, "U", "U") EXCEPT !.present = FALSE]

\* The UndefinedType instance _addProperty puts in a fresh entry's value
\* slot: read as a descriptor, every field of it is undefined.
FreshEntryValue == Desc(NoVal, "U", NoVal, NoVal, "U", "U")

DataPropertyDescriptor(c) == Desc(UndefinedType(c), "F", NoVal, NoVal, "F", "F")

AccessorPropertyDescriptor == Desc(NoVal, "U", NoVal, NoVal, "F", "F")

isDataDescriptor(d) ==
  IF ~d.present THEN FALSE
  ELSE ~(d.value = NoVal /\ d.writable = "U")

isAccessorDescriptor(d) ==
  IF ~d.present THEN FALSE
  ELSE ~(d.get = NoVal /\ d.set = NoVal)

isGenericDescriptor(d) ==
  IF ~d.present THEN FALSE
  ELSE ~isAccessorDescriptor(d) /\ ~isDataDescriptor(d)

sameValue(x, y) ==
  IF x = NoVal /\ y = NoVal THEN TRUE
  ELSE IF x = NoVal \/ y = NoVal THEN FALSE
  ELSE IF x.type # y.type THEN FALSE
  ELSE IF x.type = "Undefined" THEN TRUE
  ELSE IF x.type = "Number" THEN x.val = y.val
  ELSE x = y

\* The accessor branch of sameDesc has no return statement: it yields
\* undefined, which every caller reads as false.
sameDesc(x, y) ==
  IF isDataDescriptor(x) /\ isDataDescriptor(y)
  THEN /\ x.configurable = y.configurable
       /\ x.enumerable = y.enumerable
       /\ x.writable = y.writable
       /\ sameValue(x.value, y.value)
  ELSE FALSE

DescKeys(d) ==
  {k \in {"value", "writable", "get", "set", "enumerable", "configurable"} :
     CASE k = "value"        -> d.value # NoVal
       [] k = "writable"     -> d.writable # "U"
       [] k = "get"          -> d.get # NoVal
       [] k = "set"          -> d.set # NoVal
       [] k = "enumerable"   -> d.enumerable # "U"
       [] k = "configurable" -> d.configurable # "U"}

\* A variant of the copy loop below that leaves the value slot alone.
CopyKeysKeepingValue(current, desc, keys) ==
  [present      |-> TRUE,
   value        |-> current.value,
   writable     |-> IF "writable" \in keys THEN desc.writable ELSE current.writable,
   get          |-> IF "get" \in keys THEN desc.get ELSE current.get,
   set          |-> IF "set" \in keys THEN desc.set ELSE current.set,
   enumerable   |-> IF "enumerable" \in keys THEN desc.enumerable ELSE current.enumerable,
   configurable |-> IF "configurable" \in keys THEN desc.configurable ELSE current.configurable]

\* for (i in descKeys) current[descKeys[i]] = desc[descKeys[i]]
CopyKeys(current, desc, keys) ==
  [present      |-> TRUE,
   value        |-> IF "value" \in keys THEN desc.value ELSE current.value,
   writable     |-> IF "writable" \in keys THEN desc.writable ELSE current.writable,
   get          |-> IF "get" \in keys THEN desc.get ELSE current.get,
   set          |-> IF "set" \in keys THEN desc.set ELSE current.set,
   enumerable   |-> IF "enumerable" \in keys THEN desc.enumerable ELSE current.enumerable,
   configurable |-> IF "configurable" \in keys THEN desc.configurable ELSE current.configurable]

\* ------------------------------------------------------------ the object
\* The entry of _properties for the name "p": the primary descriptor and
\* the alternate descriptors by skipped-section id.
NoEntry == [exists |-> FALSE, value |-> NoDesc, alt |-> << >>]

\* Values of the objectPrototype field: another object of the store, one of
\* the built-in prototypes, a Null or Unknown value, or nothing (falsy).
Ref(id) == [kind |-> "Object", id |-> id]

ObjectProto == [kind |-> "prototypes.Object", id |-> 0]

ArrayProto == [kind |-> "prototypes.Array", id |-> 0]

NullProto == [kind |-> "Null", id |-> 0]

UnknownProto == [kind |-> "Unknown", id |-> 0]

NoProto == [kind |-> "none", id |-> 0]

\* The objects the program links by objectPrototype: for each, whether it
\* was created, its objectPrototype and whether it has an own property "p".
NoObjects ==
  [id \in 1..MaxObjects |-> [exists |-> FALSE, proto |-> NoProto, own |-> FALSE]]

\* new ObjectType(className) with closure c.  Besides "p" the property map
\* has the names "length" and "0".."MaxIndex", used by arrays.  ever is
\* history: the integer names whose definition the object accepted;
\* lengthWritten is history too: "length" was written other than by the
\* constructor's initial 0 and by the index rule of defineOwnProperty.
\* store holds the objects created besides this one.
\* The marks of an AST node: _visited and _skipped are absent ("undefined")
\* until setVisited writes them.
Unmarked == [visited |-> "undefined", skipped |-> "undefined"]

NoMarks == [n \in 1..MaxNodes |-> Unmarked]

\* !x of the host for a mark x.
hostNot(x) == IF x = "true" THEN "false" ELSE "true"

\* setVisited with the skipped mark set whatever _visited holds.
setVisitedAlways(w, ast) ==
  IF isSkippedMode(w)
  THEN [ast EXCEPT !.skipped = "true"]
  ELSE [visited |-> "true", skipped |-> "false"]

\* setVisited(ast): the marks of the node afterwards.
setVisited(w, ast) ==
  IF isSkippedMode(w)
  THEN [ast EXCEPT !.skipped = hostNot(ast.visited)]
  ELSE [visited |-> "true", skipped |-> "false"]

ObjectType(className, c) ==
  [closure |-> c, extensible |-> TRUE, p |-> NoEntry, className |-> className,
   length |-> NoEntry, elems |-> [i \in 0..MaxIndex |-> NoEntry],
   ever |-> {}, lengthWritten |-> FALSE, store |-> NoObjects,
   ast |-> NoMarks]

\* Object o seen through one of its property names: the operations on "p"
\* applied to the entry of another name.
PropView(o, entry) == [o EXCEPT !.p = entry]

lookupProperty(o) == IF o.p.exists THEN o.p.value ELSE NoDesc

addProperty(w, o, desc) ==
  LET entry == IF o.p.exists THEN o.p
               ELSE [exists |-> TRUE, value |-> FreshEntryValue, alt |-> << >>]
  IN  IF WritesAlternate(w, o.closure)
      THEN [o EXCEPT !.p = [entry EXCEPT !.alt = SetAlt(@, getSkippedSection(w), desc)]]
      ELSE [o EXCEPT !.p = [entry EXCEPT !.value = desc]]

removeProperty(o) == [o EXCEPT !.p = NoEntry]

copyDescriptor(d) ==
  IF isDataDescriptor(d)
  THEN Desc(d.value, d.writable, NoVal, NoVal, d.enumerable, d.configurable)
  ELSE Desc(NoVal, "U", d.get, d.set, d.enumerable, d.configurable)

getOwnProperty(o) ==
  LET x == lookupProperty(o)
  IN  IF x.present THEN copyDescriptor(x) ELSE NoDesc

\* The prototype chain of the modelled object (prototypes.Object) holds no
\* property "p": getProperty falls back to undefined.
getProperty(o) == getOwnProperty(o)

canPut(o) ==
  LET desc == getOwnProperty(o)
  IN  IF desc.present
      THEN IF isAccessorDescriptor(desc)
           THEN desc.set # NoVal /\ desc.set.type # "Undefined"
           ELSE desc.writable = "T"
      ELSE o.extensible

\* The test defineOwnProperty makes on the value of a data descriptor.
DefinesUnknown(w, v) ==
  type(v) = "Unknown" \/ ~isLocal(w, v) \/ isAmbiguousBlock(w)

\* A rejected definition: handleRecoverableNativeException when throwFlag is
\* set, then return false.
Reject(w, opts, o, throwFlag, fired) ==
  LET h == IF throwFlag THEN handleRecoverableNativeException(w, opts) ELSE "none"
  IN  [o |-> o, ret |-> FALSE, raise |-> IF h = "thrown" THEN "engine" ELSE "none",
       handled |-> h, defined |-> fired]

Accept(o, fired) ==
  [o |-> o, ret |-> TRUE, raise |-> "none", handled |-> "none", defined |-> fired]

\* defineOwnProperty("p", desc, throwFlag) on object o in world w.
defineOwnProperty(w, opts, o, desc0, throwFlag) ==
  LET cur      == getCurrentContext(w)
      current  == getOwnProperty(o)
      descKeys == DescKeys(desc0)
      isData   == isDataDescriptor(desc0)
      v1       == updateClosure(w, IF desc0.value = NoVal THEN UndefinedType(cur)
                                   ELSE desc0.value, o.closure)
      desc     == IF isData THEN [desc0 EXCEPT !.value = v1] ELSE desc0
      unk      == CopyKeys([DataPropertyDescriptor(cur) EXCEPT !.value = UnknownType(cur)],
                           desc, descKeys \ {"value", "get", "set"})
      fresh    == IF isAccessorDescriptor(desc)
                  THEN CopyKeys(AccessorPropertyDescriptor, desc,
                                descKeys \ {"value", "writable"})
                  ELSE CopyKeys([DataPropertyDescriptor(cur) EXCEPT !.value =
                                   IF desc.value # NoVal THEN desc.value ELSE @],
                                desc, descKeys \ {"value", "get", "set"})
      converted == IF isDataDescriptor(current)
                   THEN [AccessorPropertyDescriptor EXCEPT
                           !.configurable = current.configurable,
                           !.enumerable = current.enumerable]
                   ELSE [DataPropertyDescriptor(cur) EXCEPT
                           !.configurable = current.configurable,
                           !.enumerable = current.enumerable]
      base     == IF isGenericDescriptor(desc) THEN desc
                  ELSE IF isDataDescriptor(desc) # isDataDescriptor(current) THEN converted
                  ELSE current
      final    == CopyKeys(base, desc, descKeys)
  IN  IF isData /\ DefinesUnknown(w, v1)
        THEN IF opts.exactMode
             THEN [o |-> o, ret |-> FALSE, raise |-> "host", handled |-> "none",
                   defined |-> FALSE]
             ELSE Accept(addProperty(w, o, unk), FALSE)
      ELSE IF ~current.present /\ ~o.extensible
        THEN Reject(w, opts, o, throwFlag, FALSE)
      ELSE IF ~current.present /\ o.extensible
        THEN Accept(addProperty(w, o, fresh), TRUE)
      ELSE IF descKeys = {}
        THEN Accept(o, TRUE)
      ELSE IF sameDesc(current, desc)
        THEN Accept(o, TRUE)
      ELSE IF /\ current.configurable # "T"
              /\ \/ desc.configurable = "T"
                 \/ desc.enumerable # "U" /\ desc.enumerable # current.enumerable
        THEN Reject(w, opts, o, throwFlag, TRUE)
      ELSE IF /\ ~isGenericDescriptor(desc)
              /\ isDataDescriptor(desc) # isDataDescriptor(current)
              /\ current.configurable # "T"
        THEN Reject(w, opts, o, throwFlag, TRUE)
      ELSE IF /\ ~isGenericDescriptor(desc)
              /\ isDataDescriptor(desc) /\ isDataDescriptor(current)
              /\ current.configurable # "T" /\ current.writable # "T"
              /\ \/ desc.writable = "T"
                 \/ desc.value # NoVal /\ ~sameDesc(desc, current)
        THEN Reject(w, opts, o, throwFlag, TRUE)
      ELSE IF /\ ~isGenericDescriptor(desc)
              /\ isDataDescriptor(desc) = isDataDescriptor(current)
              /\ ~(isDataDescriptor(desc) /\ isDataDescriptor(current))
              /\ isAccessorDescriptor(desc) /\ isAccessorDescriptor(current)
              /\ current.configurable # "T" /\ desc.set # NoVal
              /\ \/ ~sameValue(desc.set, current.set)
                 \/ ~sameValue(desc.get, current.get)
        THEN Reject(w, opts, o, throwFlag, TRUE)
      ELSE Accept(addProperty(w, o, final), TRUE)

\* put("p", v, throwFlag) on object o.  A setter is a function with an empty
\* body: calling it pushes and pops a context and changes nothing else
\* (setter is "called", "unknown" when the engine declines to invoke it).
\* reports counts the errors handed to Runtime.reportError; seen is the
\* stored property at the time the propertySet event fires.
put(w, opts, o, v, throwFlag) ==
  LET cur     == getCurrentContext(w)
      canPutP == canPut(o)
      h       == IF ~canPutP /\ throwFlag
                 THEN handleRecoverableNativeException(w, opts) ELSE "none"
      d0      == IF ~canPutP /\ throwFlag
                 THEN defineOwnProperty(w, opts, o,
                        Desc(UnknownType(cur), "U", NoVal, NoVal, "U", "U"), throwFlag)
                 ELSE Accept(o, FALSE)
      o1      == d0.o
      ownDesc == getOwnProperty(o1)
      desc    == getProperty(o1)
      d1      == IF isDataDescriptor(ownDesc)
                 THEN defineOwnProperty(w, opts, o1,
                        Desc(v, "U", NoVal, NoVal, "U", "U"), throwFlag)
                 ELSE defineOwnProperty(w, opts, o1,
                        Desc(v, "T", NoVal, NoVal, "T", "T"), throwFlag)
      one     == IF h = "reported" THEN 1 ELSE 0
      none    == [o |-> o, raise |-> "none", handled |-> h, set |-> FALSE,
                  setter |-> "none", reports |-> one, seen |-> o.p]
  IN  IF ~canPutP /\ ~throwFlag THEN none
      ELSE IF h = "thrown" THEN [none EXCEPT !.raise = "engine"]
      ELSE IF ~canPutP /\ opts.exactMode THEN [none EXCEPT !.raise = "host"]
      ELSE IF d0.raise # "none" THEN [none EXCEPT !.raise = d0.raise]
      ELSE IF ~isDataDescriptor(ownDesc) /\ isAccessorDescriptor(desc)
        THEN IF desc.set = NoVal
             THEN [o |-> o1, raise |-> "host", handled |-> h, set |-> TRUE,
                   setter |-> "none", reports |-> one, seen |-> o1.p]
             ELSE IF ~opts.invokeMethods /\ opts.exactMode
             THEN [o |-> o1, raise |-> "host", handled |-> h, set |-> TRUE,
                   setter |-> "none", reports |-> one, seen |-> o1.p]
             ELSE [o |-> o1, raise |-> "none", handled |-> h, set |-> TRUE,
                   setter |-> IF opts.invokeMethods THEN "called" ELSE "unknown",
                   reports |-> one, seen |-> o1.p]
      ELSE [o |-> d1.o, raise |-> d1.raise,
            handled |-> IF d1.handled # "none" THEN d1.handled ELSE h,
            set |-> TRUE, setter |-> "none",
            reports |-> one + IF d1.handled = "reported" THEN 1 ELSE 0,
            seen |-> o1.p]

\* canPut("p") on the wrapper toObject(base) of a primitive base: the wrapper
\* is extensible and has no own "p"; inherited is what its prototype's
\* getProperty finds.
canPutInherited(inherited) ==
  IF ~inherited.present THEN TRUE
  ELSE IF isAccessorDescriptor(inherited)
    THEN inherited.set # NoVal /\ type(inherited.set) # "Undefined"
  ELSE inherited.writable = "T"

\* The put of putValue for a property reference with a primitive base, with
\* proto the prototype of the wrapper.  The accessor branch reads
\* desc.setter, a field no descriptor has (the field is set): calling
\* callFunction on it is a host TypeError, and no setter is called.
putPrimitive(w, opts, proto, throwFlag) ==
  LET inherited == getProperty(proto)
      h         == IF throwFlag THEN handleRecoverableNativeException(w, opts)
                   ELSE "none"
      refused   == [calls |-> 0, handled |-> h,
                    raise |-> IF h = "thrown" THEN "engine" ELSE "none"]
  IN  IF ~canPutInherited(inherited) THEN refused
      ELSE IF isAccessorDescriptor(inherited)
        THEN [calls |-> 0, handled |-> "none", raise |-> "host"]
      ELSE refused

\* get("p") without the alternate flag.  A getter is a function with an
\* empty body: its call yields undefined.
get(w, o) ==
  LET desc == getProperty(o)
  IN  IF desc.present /\ isDataDescriptor(desc) /\ desc.value # NoVal
      THEN desc.value
      ELSE UndefinedType(getCurrentContext(w))

\* The this value of the nested function lookup of get, which get calls as
\* lookup(desc): the host's global object, not the object get was called on.
HostThis == "host"

\* lookup(desc) of get("p"): the value the descriptor yields, how many times
\* a getter was called and with which this value ("none" when no getter was
\* called).  A getter is a function with an empty body: its call yields
\* undefined, or Unknown when the engine does not invoke methods.
lookup(w, opts, desc) ==
  LET cur == getCurrentContext(w)
  IN  IF ~desc.present
        THEN [value |-> UndefinedType(cur), calls |-> 0, thisVal |-> "none",
              raise |-> "none"]
      ELSE IF isDataDescriptor(desc)
        THEN [value |-> IF desc.value # NoVal THEN desc.value ELSE UndefinedType(cur),
              calls |-> 0, thisVal |-> "none", raise |-> "none"]
      ELSE IF desc.get = NoVal \/ type(desc.get) = "Undefined"
        THEN [value |-> UndefinedType(cur), calls |-> 0, thisVal |-> "none",
              raise |-> "none"]
      ELSE IF opts.invokeMethods
        THEN [value |-> UndefinedType(cur), calls |-> 1, thisVal |-> HostThis,
              raise |-> "none"]
      ELSE IF opts.exactMode
        THEN [value |-> NoVal, calls |-> 1, thisVal |-> HostThis, raise |-> "host"]
      ELSE [value |-> UnknownType(cur), calls |-> 1, thisVal |-> HostThis,
            raise |-> "none"]

\* delete("p", throwFlag) on object o.
delete(o, throwFlag) ==
  LET desc == getOwnProperty(o)
  IN  IF ~desc.present THEN [o |-> o, ret |-> TRUE, raise |-> "none"]
      ELSE IF desc.configurable = "T"
        THEN [o |-> removeProperty(o), ret |-> TRUE, raise |-> "none"]
      ELSE IF throwFlag THEN [o |-> o, ret |-> FALSE, raise |-> "engine"]
      ELSE [o |-> o, ret |-> FALSE, raise |-> "none"]

\* ------------------------------------------------------ declaration binding
\* The test the declaration binding makes on an existing, non-configurable
\* property of the global object before it throws a TypeError.
NotRedeclarable(existingProp) ==
  \/ isAccessorDescriptor(existingProp)
  \/ existingProp.writable # "T" /\ existingProp.enumerable # "T"

\* The steps of initGlobalAST for one function declaration named "p" up to
\* the call of setMutableBinding; o is the global object, the binding
\* object of the global environment record.
prepareFunctionBinding(w, opts, o, configurableBindings) ==
  LET cur          == getCurrentContext(w)
      existingProp == getProperty(o)
      flag         == IF configurableBindings THEN "T" ELSE "F"
      stay         == [o |-> o, ret |-> TRUE, raise |-> "none", handled |-> "none",
                       defined |-> FALSE]
  IN  IF ~existingProp.present
        THEN defineOwnProperty(w, opts, o,
               Desc(UndefinedType(cur), "T", NoVal, NoVal, "T", flag), TRUE)
      ELSE IF existingProp.configurable = "T"
        THEN defineOwnProperty(w, opts, o,
               [DataPropertyDescriptor(cur) EXCEPT
                  !.writable = "T", !.enumerable = "T", !.configurable = flag], TRUE)
      ELSE IF NotRedeclarable(existingProp)
        THEN [stay EXCEPT !.raise = "engine"]
      ELSE stay

\* What initGlobalAST passes on once the steps above have come back with d
\* and env.setMutableBinding(fn, fo, strict), a put on the global object,
\* with r (r is not looked at when the steps above threw).
boundFunction(d, r) ==
  IF d.raise # "none"
  THEN [o |-> d.o, raise |-> d.raise, handled |-> d.handled]
  ELSE [o |-> r.o, raise |-> r.raise,
        handled |-> IF r.handled # "none" THEN r.handled ELSE d.handled]

bindFunction(w, opts, d, fo, strict) ==
  CHOOSE res \in {boundFunction(d, r) : r \in {put(w, opts, d.o, fo, strict)}} : TRUE

\* initGlobalAST for a program whose only declaration is "function p".
initGlobalAST(w, opts, o, fo, strict) ==
  CHOOSE res \in
    {bindFunction(w, opts, d, fo, strict) :
       d \in {prepareFunctionBinding(w, opts, o, FALSE)}} : TRUE

\* ------------------------------------------------------------------ arrays
\* The descriptor ArrayType and ArrayConstructor store under "length".
LengthDescriptor(n, c) == Desc(NumberType(n, c), "T", NoVal, NoVal, "F", "F")

\* this._addProperty('length', {value: new NumberType(n), ...})
addLength(w, o, n) ==
  [o EXCEPT !.length =
     addProperty(w, PropView(o, o.length),
                 LengthDescriptor(n, getCurrentContext(w))).p]

\* this.get('length')
getLength(w, o) == get(w, PropView(o, o.length))

\* new ArrayType() in world w
ArrayType(w) == addLength(w, ObjectType("Array", getCurrentContext(w)), 0)

\* A variant of the comparison below with > in the place of >=.
ReachesBeyondLength(parsedP, len) == type(len) = "Number" /\ parsedP > len.val

\* parsedP >= this.get('length').value: the value slot of anything but a
\* number is undefined, and the comparison with undefined is false.
ReachesLength(parsedP, len) == type(len) = "Number" /\ parsedP >= len.val

\* The part of ArrayType.prototype.defineOwnProperty that follows the call
\* of the base method, for the integer name p = index.
updateLength(w, o, index) ==
  IF ReachesLength(index, getLength(w, o)) THEN addLength(w, o, index + 1) ELSE o

\* What ArrayType.prototype.defineOwnProperty does once the base method has
\* come back with r.  The result of the base method is dropped (ret records
\* it) and the function ends without a return statement: returned is what
\* its caller receives.  An exception of the base method leaves before
\* length is looked at.
afterBase(w, o, index, r) ==
  IF r.raise # "none"
  THEN [o |-> o, ret |-> r.ret, raise |-> r.raise, handled |-> r.handled,
        returned |-> "none"]
  ELSE [o |-> updateLength(w, [o EXCEPT !.elems[index] = r.o.p,
                                        !.ever = IF r.ret THEN @ \cup {index} ELSE @],
                           index),
        ret |-> r.ret, raise |-> "none", handled |-> r.handled,
        returned |-> "undefined"]

\* ArrayType.prototype.defineOwnProperty(p, desc, throwFlag) for the integer
\* name p = index: the base method is called once, on the entry of p.
ArrayDefineOwnProperty(w, opts, o, index, desc, throwFlag) ==
  CHOOSE res \in
    {afterBase(w, o, index, r) :
       r \in {defineOwnProperty(w, opts, PropView(o, o.elems[index]), desc, throwFlag)}} :
    TRUE

\* array.put('length', v, throwFlag): "length" is no integer name, so the
\* array's defineOwnProperty does what the base method does.
putLength(w, opts, o, v, throwFlag) ==
  LET r == put(w, opts, PropView(o, o.length), v, throwFlag)
  IN  [o |-> [o EXCEPT !.length = r.o.p, !.lengthWritten = TRUE],
       raise |-> r.raise, handled |-> r.handled]

\* ------------------------------------------------------- toInt32 and toUint32
\* The model's integers are narrower than the program's doubles, so the
\* conversions run with the modulus 2^Bits where the program has 2^32.
Modulus == 2 ^ Bits

\* The host's a % m: the remainder has the sign of the dividend.
hostRemainder(a, m) == IF a >= 0 THEN a % m ELSE 0 - ((0 - a) % m)

\* A Number as the conversions see it: NaN, an infinity, or sign * (mag +
\* a fraction when frac).
NumberInput(kind, sign, mag, frac) ==
  [kind |-> kind, sign |-> sign, mag |-> mag, frac |-> frac]

\* sign * Math.floor(Math.abs(value)) % Math.pow(2, 32)
truncatedModulo(x) ==
  hostRemainder((IF x.sign < 0 THEN 0 - 1 ELSE 1) * x.mag, Modulus)

toUint32(x) ==
  IF x.kind \in {"nan", "inf"} THEN 0 ELSE truncatedModulo(x)

toInt32(x) ==
  IF x.kind \in {"nan", "inf"} THEN 0
  ELSE IF truncatedModulo(x) >= Modulus \div 2 THEN truncatedModulo(x) - Modulus
  ELSE truncatedModulo(x)

\* len.value === toUint32(len).value, for the integer n
IsUint32(n) ==
  n = toUint32(NumberInput("num", IF n < 0 THEN 0 - 1 ELSE 1,
                           IF n < 0 THEN 0 - n ELSE n, FALSE))

\* ArrayConstructor.prototype.construct(args) for no argument or one number.
\* made is FALSE when the call does not return an array.
construct(w, opts, args) ==
  LET array == ArrayType(w)
      h     == handleRecoverableNativeException(w, opts)
  IN  IF Len(args) = 0
        THEN [made |-> TRUE, o |-> array, raise |-> "none", handled |-> "none"]
      ELSE IF IsUint32(args[1].val)
        THEN [made |-> TRUE,
              o |-> [addLength(w, array, args[1].val) EXCEPT !.lengthWritten = TRUE],
              raise |-> "none", handled |-> "none"]
      ELSE IF h = "thrown"
        THEN [made |-> FALSE, o |-> array, raise |-> "engine", handled |-> h]
      ELSE IF opts.exactMode
        THEN [made |-> FALSE, o |-> array, raise |-> "host", handled |-> h]
      ELSE [made |-> FALSE, o |-> array, raise |-> "none", handled |-> h]

\* ==================================================================== state
Numbers == {7}

NoFrame ==
  [kind |-> "none", phase |-> "none", i |-> 0, len |-> 0, after |-> "none",
   result |-> "normal", caught |-> NoPending, log |-> << >>,
   stackBefore |-> << >>, pushedEnv |-> 0, pushedId |-> 0,
   skipBefore |-> << >>, primBefore |-> << >>, objBefore |-> NoDesc,
   objSame |-> FALSE, bl |-> FALSE, un |-> FALSE, sr |-> FALSE,
   ambBefore |-> << >>]

Top == frames[Len(frames)]

\* A statement of the program is being processed: its rule may call the
\* engine's operations.
Running ==
  /\ pending.kind = "none"
  /\ IF frames = << >> THEN TRUE
     ELSE Top.phase \in {"body", "run"} /\ Top.i <= Top.len

Cur == getCurrentContext(World)

\* ------------------------------------------------------------ observations
NoExit == [kind |-> "none", before |-> << >>, after |-> << >>, how |-> "none",
           res |-> "none"]

NoSkipExit ==
  [valid |-> FALSE, excIn |-> "none", unroll |-> FALSE, out |-> "none",
   skipBefore |-> << >>, skipAfter |-> << >>, primBefore |-> << >>,
   primAfter |-> << >>, objBefore |-> NoDesc, objAfter |-> NoDesc,
   sameObj |-> TRUE]

NoHandle == [valid |-> FALSE, inTry |-> FALSE, skipped |-> FALSE, outcome |-> "none"]

NoWrite ==
  [valid |-> FALSE, skipped |-> FALSE, amb |-> FALSE, local |-> FALSE,
   ambCtx |-> FALSE, v |-> NoVal, before |-> NoBinding, after |-> NoBinding,
   section |-> 0, raise |-> "none"]

NoDef ==
  [valid |-> FALSE, op |-> "none", skipped |-> FALSE, amb |-> FALSE,
   local |-> FALSE, ambCtx |-> FALSE, desc |-> NoDesc, v |-> NoVal,
   before |-> NoEntry, after |-> NoEntry, section |-> 0, raise |-> "none",
   ret |-> FALSE, canPut |-> FALSE, strict |-> FALSE, reports |-> 0,
   fired |-> FALSE, seen |-> NoEntry, got |-> NoVal, extensible |-> TRUE,
   closed |-> NoVal]

NoBody == [valid |-> FALSE, len |-> 0, stop |-> 0, how |-> "none", log |-> << >>,
           blacklisted |-> FALSE, unroll |-> FALSE, skipRaised |-> FALSE]

NoArr == [valid |-> FALSE, index |-> 0, ret |-> FALSE, raise |-> "none",
          returned |-> "none",
          lenBefore |-> NoVal, lenAfter |-> NoVal, skipped |-> FALSE]

\* What became of a syntax error in source handed to eval or to the Function
\* constructor: "recovered" (reported, Unknown returned), "silent" (Unknown
\* returned, nothing reported), "thrown" (SyntaxError) or "host" (the host
\* Error of new UnknownType() in exact mode).
NoParse == [valid |-> FALSE, source |-> "none", inTry |-> FALSE, skipped |-> FALSE,
            outcome |-> "none"]

NoConv == [valid |-> FALSE, unsigned |-> FALSE, x |-> NoVal, result |-> 0]

NoSealed == [valid |-> FALSE, frozen |-> FALSE, result |-> FALSE, found |-> FALSE]

NoPrim == [valid |-> FALSE, inherited |-> NoDesc, strict |-> FALSE, calls |-> 0,
           raise |-> "none"]

NoPlugin == [valid |-> FALSE, globalsOnly |-> FALSE, name |-> << >>, thisVal |-> 0,
             args |-> << >>, registered |-> {}, matched |-> {}, results |-> {}]

NoSame == [valid |-> FALSE, x |-> NoVal, y |-> NoVal, result |-> FALSE]

NoEq == [valid |-> FALSE, x |-> NoVal, y |-> NoVal, result |-> "none"]

NoAmb == [valid |-> FALSE, ctx |-> 0, exitCtx |-> 0, ambBefore |-> << >>,
          ambAfter |-> << >>, skipBefore |-> << >>, skipAfter |-> << >>]

NoChain == [valid |-> FALSE, from |-> 0, outcome |-> "none", calls |-> 0]

NoHost == [valid |-> FALSE, fn |-> "none", value |-> NoVal, raise |-> "none"]

NoRef == [valid |-> FALSE, desc |-> NoDesc, value |-> NoVal, calls |-> 0,
          thisVal |-> "none", events |-> 0, raise |-> "none"]

\* The data of a rule event that carries no result, and the observation of
\* a rule run: the events fired so far and what the rule returned.
NoResult == [id |-> 0, value |-> NoVal]

NoRule == [valid |-> FALSE, ast |-> 0, literal |-> 0, before |-> 0,
           log |-> << >>, returned |-> NoResult]

NoVisit == [valid |-> FALSE, node |-> 0, skippedMode |-> FALSE,
            before |-> Unmarked, after |-> Unmarked]

NoObs == [exit |-> NoExit, skip |-> NoSkipExit, handle |-> NoHandle,
          write |-> NoWrite, def |-> NoDef, body |-> NoBody, arr |-> NoArr,
          parse |-> NoParse, ref |-> NoRef, host |-> NoHost, chain |-> NoChain,
          amb |-> NoAmb, eq |-> NoEq, same |-> NoSame, plugin |-> NoPlugin,
          prim |-> NoPrim, sealed |-> NoSealed, conv |-> NoConv, visit |-> NoVisit,
          rule |-> NoRule]

HandleObs(w, h) ==
  IF h = "none" THEN NoHandle
  ELSE [valid |-> TRUE, inTry |-> inTryCatch, skipped |-> isSkippedMode(w),
        outcome |-> h]

ExitObs(kind, before, after, how, res) ==
  [kind |-> kind, before |-> before, after |-> after, how |-> how, res |-> res]

\* ------------------------------------------------------------------- init
InitWith(opts, x) ==
  /\ options \in opts
  /\ contextStack = << 1 >>
  /\ functionContextCount = 0
  /\ ctxs = << [lexEnv |-> 1, amb |-> 0, isFunctionContext |-> FALSE] >>
  /\ envs = << [outer |-> 0, ambiguousContext |-> FALSE, skipStack |-> << >>,
                x |-> x] >>
  /\ obj = ObjectType("Object", 1)
  /\ tryCatch = 0
  /\ exception = 0
  /\ frames = << >>
  /\ pending = NoPending
  /\ last = NoObs

Init ==
  InitWith([exactMode : BOOLEAN, nativeExceptionRecovery : BOOLEAN,
            invokeMethods : BOOLEAN], NoBinding)

\* The exception objects something still refers to: the one in flight and
\* the ones held by the catch blocks of the running handlers.
LiveExceptions ==
  ({pending.exc} \cup {frames[i].caught.exc : i \in 1..Len(frames)})
    \cap (1..MaxExc)

\* The identity of a newly constructed exception object.
NewException ==
  CHOOSE e \in (1..MaxExc) \ LiveExceptions :
    \A d \in (1..MaxExc) \ LiveExceptions : e <= d

\* throwException(exception): store the exception, raise the sentinel.
Raise(kind) ==
  IF kind = "engine"
  THEN /\ LiveExceptions # 1..MaxExc
       /\ exception' = NewException
       /\ pending' = [kind |-> "engine", exc |-> NewException]
  ELSE /\ pending' = [kind |-> kind, exc |-> 0]
       /\ UNCHANGED << exception >>

RaiseIf(kind) ==
  IF kind # "none" THEN Raise(kind)
  ELSE UNCHANGED << exception, pending >>

\* ------------------------------------------------ ambiguous blocks, try/catch
enterAmbiguousBlock ==
  /\ Running
  /\ ~options.exactMode
  /\ ctxs[Cur].amb < MaxAmb
  /\ ctxs' = [ctxs EXCEPT ![Cur].amb = @ + 1]
  /\ last' = NoObs
  /\ UNCHANGED << options, contextStack, functionContextCount, envs, obj,
                  tryCatch, exception, frames, pending >>

exitAmbiguousBlock ==
  /\ Running
  /\ ctxs[Cur].amb > 0
  /\ ctxs' = [ctxs EXCEPT ![Cur].amb = @ - 1]
  /\ last' = NoObs
  /\ UNCHANGED << options, contextStack, functionContextCount, envs, obj,
                  tryCatch, exception, frames, pending >>

enterTryCatch ==
  /\ Running
  /\ tryCatch < MaxTry
  /\ tryCatch' = tryCatch + 1
  /\ last' = NoObs
  /\ UNCHANGED << options, contextStack, functionContextCount, ctxs, envs, obj,
                  exception, frames,
                  pending >>

exitTryCatch ==
  /\ Running
  /\ tryCatch > 0
  /\ tryCatch' = tryCatch - 1
  /\ last' = NoObs
  /\ UNCHANGED << options, contextStack, functionContextCount, ctxs, envs, obj,
                  exception, frames,
                  pending >>

\* --------------------------------------------------------------- exceptions
\* A rule reaches an error site and calls handleRecoverableNativeException.
HandleRecoverable ==
  LET h == handleRecoverableNativeException(World, options)
  IN  /\ Running
      /\ last' = [NoObs EXCEPT !.handle = HandleObs(World, h)]
      /\ RaiseIf(IF h = "thrown" THEN "engine" ELSE "none")
      /\ UNCHANGED << options, contextStack, functionContextCount, ctxs, envs,
                      obj, tryCatch, frames >>

\* A rule throws: throwNativeException / throwException (engine), or an
\* internal Error of the host (host).
Throw(kind) ==
  /\ Running
  /\ Raise(kind)
  /\ last' = NoObs
  /\ UNCHANGED << options, contextStack, functionContextCount, ctxs, envs, obj,
                  tryCatch, frames >>

\* ------------------------------------------------------------------- writes
RECURSIVE ResolveX(_, _)
\* getIdentifierReference: the innermost record of the scope chain that has
\* the binding, 0 when the reference is unresolvable.
ResolveX(w, e) ==
  IF e = 0 THEN 0
  ELSE IF w.envs[e].x.exists THEN e
  ELSE ResolveX(w, w.envs[e].outer)

\* One of the environment records on the scope chain of the current context
\* is marked _ambiguousContext.
RECURSIVE AmbiguousChain(_, _)
AmbiguousChain(w, e) ==
  IF e = 0 THEN FALSE
  ELSE w.envs[e].ambiguousContext \/ AmbiguousChain(w, w.envs[e].outer)

NewValues ==
  {NumberType(n, Cur) : n \in Numbers}
    \cup (IF options.exactMode THEN {} ELSE {UnknownType(Cur)})

\* x = v: resolve x and call setMutableBinding on its record.
SetX(v, s) ==
  LET w == World
      e == ResolveX(w, currentLexEnv(w))
      r == setMutableBinding(w, options, envs[e].x, v, s)
  IN  /\ Running
      /\ e # 0
      /\ envs' = [envs EXCEPT ![e].x = r.b]
      /\ last' = [NoObs EXCEPT
                    !.write = [valid |-> TRUE, skipped |-> isSkippedMode(w),
                               amb |-> isAmbiguousBlock(w),
                               local |-> isLocal(w, envs[e].x.value),
                               ambCtx |-> AmbiguousChain(w, currentLexEnv(w)),
                               v |-> v, before |-> envs[e].x, after |-> r.b,
                               section |-> getSkippedSection(w),
                               raise |-> r.raise],
                    !.handle = HandleObs(w, r.handled)]
      /\ RaiseIf(r.raise)
      /\ UNCHANGED << options, contextStack, functionContextCount, ctxs, obj,
                      tryCatch, frames >>

\* createImmutableBinding("x") on the record of the current context.
CreateImmutableX ==
  LET w == World
      e == currentLexEnv(w)
      r == createImmutableBinding(w, envs[e].x)
  IN  /\ Running
      /\ envs' = [envs EXCEPT ![e].x = r.b]
      /\ last' = NoObs
      /\ RaiseIf(r.raise)
      /\ UNCHANGED << options, contextStack, functionContextCount, ctxs, obj,
                      tryCatch, frames >>

\* initializeImmutableBinding("x", v) on the record of the current context.
InitializeImmutableX(v) ==
  LET w == World
      e == currentLexEnv(w)
      r == initializeImmutableBinding(envs[e].x, v)
  IN  /\ Running
      /\ envs' = [envs EXCEPT ![e].x = r.b]
      /\ last' = [NoObs EXCEPT
                    !.write = [NoWrite EXCEPT
                                 !.valid = TRUE, !.skipped = isSkippedMode(w),
                                 !.amb = isAmbiguousBlock(w), !.v = v,
                                 !.before = envs[e].x, !.after = r.b,
                                 !.raise = r.raise]]
      /\ RaiseIf(r.raise)
      /\ UNCHANGED << options, contextStack, functionContextCount, ctxs, obj,
                      tryCatch, frames >>

\* --------------------------------------------------------------- properties
\* The descriptors handed to defineOwnProperty.
DataInputs == {Desc(v, "T", NoVal, NoVal, "T", "T") : v \in NewValues}

DescInputs ==
  DataInputs
    \cup {Desc(NumberType(n, Cur), "F", NoVal, NoVal, "F", "F") : n \in Numbers}
    \cup {Desc(NoVal, "U", FunctionType(1), FunctionType(1), "T", "T")}

\* new ObjectType(): the model follows the newest object, so the snapshots
\* the open skipped sections took are no longer snapshots of it.
NewObject ==
  /\ Running
  /\ obj' = ObjectType("Object", Cur)
  /\ frames' = [i \in 1..Len(frames) |-> [frames[i] EXCEPT !.objSame = FALSE]]
  /\ last' = NoObs
  /\ UNCHANGED << options, contextStack, functionContextCount, ctxs, envs,
                  tryCatch, exception, pending >>

DefObs(op, w, desc, v, r, throwFlag) ==
  [valid |-> TRUE, op |-> op, skipped |-> isSkippedMode(w),
   amb |-> isAmbiguousBlock(w),
   local |-> IF v = NoVal THEN TRUE ELSE isLocal(w, updateClosure(w, v, obj.closure)),
   ambCtx |-> AmbiguousChain(w, currentLexEnv(w)),
   desc |-> desc, v |-> v, before |-> obj.p, after |-> r.o.p,
   section |-> getSkippedSection(w), raise |-> r.raise,
   ret |-> IF op = "define" THEN r.ret ELSE r.set, canPut |-> canPut(obj),
   strict |-> throwFlag,
   reports |-> IF op = "put" THEN r.reports
               ELSE IF r.handled = "reported" THEN 1 ELSE 0,
   fired |-> IF op = "put" THEN r.set ELSE r.defined,
   seen |-> IF op = "put" THEN r.seen ELSE obj.p,
   got |-> get(w, r.o), extensible |-> obj.extensible,
   closed |-> IF v = NoVal THEN NoVal ELSE updateClosure(w, v, obj.closure)]

DefineP(desc, throwFlag) ==
  LET w == World
  IN  \E r \in {defineOwnProperty(w, options, obj, desc, throwFlag)} :
      /\ Running
      /\ obj' = r.o
      /\ last' = [NoObs EXCEPT !.def = DefObs("define", w, desc, desc.value, r, throwFlag),
                               !.handle = HandleObs(w, r.handled)]
      /\ RaiseIf(r.raise)
      /\ UNCHANGED << options, contextStack, functionContextCount, ctxs, envs,
                      tryCatch, frames >>

PutP(v, throwFlag) ==
  LET w == World
  IN  \E r \in {put(w, options, obj, v, throwFlag)} :
      /\ Running
      /\ obj' = r.o
      /\ last' = [NoObs EXCEPT !.def = DefObs("put", w, NoDesc, v, r, throwFlag),
                               !.handle = HandleObs(w, r.handled)]
      /\ RaiseIf(r.raise)
      /\ UNCHANGED << options, contextStack, functionContextCount, ctxs, envs,
                      tryCatch, frames >>

\* delete o.p: the propertyDeleted event fires before anything else.
DeleteP(throwFlag) ==
  LET w == World
  IN  \E r \in {delete(obj, throwFlag)} :
      /\ Running
      /\ obj' = r.o
      /\ last' = [NoObs EXCEPT
                    !.def = [NoDef EXCEPT
                               !.valid = TRUE, !.op = "delete",
                               !.skipped = isSkippedMode(w),
                               !.amb = isAmbiguousBlock(w),
                               !.before = obj.p, !.after = r.o.p,
                               !.raise = r.raise, !.ret = r.ret,
                               !.strict = throwFlag, !.fired = TRUE,
                               !.seen = obj.p, !.got = get(w, r.o),
                               !.extensible = obj.extensible]]
      /\ RaiseIf(r.raise)
      /\ UNCHANGED << options, contextStack, functionContextCount, ctxs, envs,
                      tryCatch, frames >>

\* putValue(v, w) for a reference to "p" on a primitive whose wrapper has the
\* modelled object as its prototype.
PutValuePrimitive(throwFlag) ==
  LET w == World
  IN  \E r \in {putPrimitive(w, options, obj, throwFlag)} :
      /\ Running
      /\ last' = [NoObs EXCEPT
                    !.prim = [valid |-> TRUE, inherited |-> getProperty(obj),
                              strict |-> throwFlag, calls |-> r.calls,
                              raise |-> r.raise],
                    !.handle = HandleObs(w, r.handled)]
      /\ RaiseIf(r.raise)
      /\ UNCHANGED << options, contextStack, functionContextCount, ctxs, envs,
                      obj, tryCatch, frames >>

\* o.get("p"): the propertyReferenced event follows the lookup, so it is not
\* fired when the getter throws.
GetP ==
  LET w    == World
      desc == getProperty(obj)
      r    == lookup(w, options, desc)
  IN  /\ Running
      /\ last' = [NoObs EXCEPT
                    !.ref = [valid |-> TRUE, desc |-> desc, value |-> r.value,
                             calls |-> r.calls, thisVal |-> r.thisVal,
                             events |-> IF r.raise = "none" THEN 1 ELSE 0,
                             raise |-> r.raise]]
      /\ RaiseIf(r.raise)
      /\ UNCHANGED << options, contextStack, functionContextCount, ctxs, envs,
                      obj, tryCatch, frames >>

\* ------------------------------------------------------------ prototype chains
\* The objectPrototype getter: the value assigned, else prototypes.Object
\* (prototypes.Array for an array); prototypes.Object itself has none and
\* prototypes.Array is an object whose prototype is prototypes.Object.
objectPrototype(store, ref) ==
  IF ref.kind = "Object" THEN store[ref.id].proto
  ELSE IF ref.kind = "prototypes.Array" THEN ObjectProto
  ELSE NoProto

getOwnPropertyOf(store, ref) == ref.kind = "Object" /\ store[ref.id].own

\* getProperty("p") on ref: the own property, else the prototype's
\* getProperty unless objectPrototype is falsy, Null or the object itself.
\* An Unknown value has no getProperty method, so the call is a host
\* TypeError.  fuel bounds the recursion: "unfinished" is a traversal that
\* has not ended after fuel calls.
RECURSIVE getPropertyFrom(_, _, _)
getPropertyFrom(store, ref, fuel) ==
  LET proto == objectPrototype(store, ref)
  IN  IF fuel = 0 THEN [outcome |-> "unfinished", calls |-> 0]
      ELSE IF getOwnPropertyOf(store, ref) THEN [outcome |-> "found", calls |-> 1]
      ELSE IF proto.kind \in {"none", "Null"} \/ proto = ref
        THEN [outcome |-> "undefined", calls |-> 1]
      ELSE IF proto.kind = "Unknown" THEN [outcome |-> "host", calls |-> 1]
      ELSE CHOOSE res \in {[outcome |-> r.outcome, calls |-> r.calls + 1] :
                             r \in {getPropertyFrom(store, proto, fuel - 1)}} : TRUE

\* obj.objectPrototype = proto on the object just created with id.
linkPrototypeBack(store, id, proto) ==
  LET s == [store EXCEPT ![id] = [exists |-> TRUE, proto |-> proto, own |-> FALSE]]
  IN  IF proto.kind = "Object" THEN [s EXCEPT ![proto.id].proto = Ref(id)] ELSE s

linkPrototype(store, id, proto) ==
  [store EXCEPT ![id] = [exists |-> TRUE, proto |-> proto, own |-> FALSE]]

FreeIds == {id \in 1..MaxObjects : ~obj.store[id].exists}

\* The values a program can hold that refer to an object.
ObjectValues ==
  {Ref(id) : id \in (1..MaxObjects) \ FreeIds} \cup {ObjectProto, ArrayProto}

StoreStep(store) ==
  /\ Running
  /\ obj' = [obj EXCEPT !.store = store]
  /\ last' = NoObs
  /\ UNCHANGED << options, contextStack, functionContextCount, ctxs, envs,
                  tryCatch, exception, frames, pending >>

\* new ObjectType() / new ArrayType(): the getter's default prototype.
CreateObject(proto) ==
  /\ FreeIds # {}
  /\ StoreStep(linkPrototype(obj.store, CHOOSE id \in FreeIds : TRUE, proto))

\* new F(), where F.prototype holds proto: an Object or Unknown value becomes
\* the objectPrototype of the new object, any other value leaves the default.
Construct(proto) ==
  /\ FreeIds # {}
  /\ StoreStep(linkPrototype(obj.store, CHOOSE id \in FreeIds : TRUE,
                             IF proto.kind \in {"Number", "Null"} THEN ObjectProto
                             ELSE proto))

\* Object.create(o) with o an Object or Null.
ObjectCreate(o) ==
  /\ FreeIds # {}
  /\ StoreStep(linkPrototype(obj.store, CHOOSE id \in FreeIds : TRUE, o))

\* A property "p" is defined on object id.
DefineOn(id) ==
  /\ obj.store[id].exists
  /\ ~obj.store[id].own
  /\ StoreStep([obj.store EXCEPT ![id].own = TRUE])

\* o.getProperty("p") on object id.
GetProperty(id) ==
  \E r \in {getPropertyFrom(obj.store, Ref(id), MaxObjects + 2)} :
    /\ Running
    /\ obj.store[id].exists
    /\ last' = [NoObs EXCEPT !.chain = [valid |-> TRUE, from |-> id,
                                        outcome |-> r.outcome, calls |-> r.calls]]
    /\ RaiseIf(IF r.outcome = "host" THEN "host" ELSE "none")
    /\ UNCHANGED << options, contextStack, functionContextCount, ctxs, envs,
                    obj, tryCatch, frames >>

\* setVisited(node) on the AST node n.
SetVisited(n) ==
  /\ Running
  /\ obj' = [obj EXCEPT !.ast[n] = setVisited(World, @)]
  /\ last' = [NoObs EXCEPT
                !.visit = [valid |-> TRUE, node |-> n,
                           skippedMode |-> isSkippedMode(World),
                           before |-> obj.ast[n],
                           after |-> setVisited(World, obj.ast[n])]]
  /\ UNCHANGED << options, contextStack, functionContextCount, ctxs, envs,
                  tryCatch, exception, frames, pending >>

\* RuleProcessor.fireRuleEvent(ast, data, processingComplete): one 'rule'
\* event with the properties the rule's @event block lists.
fireRuleEvent(log, ast, data, processingComplete) ==
  Append(log, [ruleName |-> "AST_Number", ast |-> ast,
               processingComplete |-> processingComplete, result |-> data])

\* The rule with a second NumberType made for the return value.
processRuleCopy(log, ast, value, id, c) ==
  LET result == [id |-> id, value |-> NumberType(value, c)]
  IN  [log |-> fireRuleEvent(fireRuleEvent(log, ast, NoResult, FALSE),
                             ast, result, TRUE),
       returned |-> [id |-> id + 1, value |-> NumberType(value, c)]]

\* processRule of AST_Number on the node ast with the literal value; id is
\* the identity of the object that new Base.NumberType makes.
processRule(log, ast, value, id, c) ==
  LET result == [id |-> id, value |-> NumberType(value, c)]
  IN  [log |-> fireRuleEvent(fireRuleEvent(log, ast, NoResult, FALSE),
                             ast, result, TRUE),
       returned |-> result]

\* An AST_Number node is processed.
ProcessNumber(ast, value) ==
  /\ Running
  /\ Len(last.rule.log) < 2 * MaxRules
  /\ \E r \in {processRule(last.rule.log, ast, value,
                           Len(last.rule.log) + 1, Cur)} :
       last' = [NoObs EXCEPT
                  !.rule = [valid |-> TRUE, ast |-> ast, literal |-> value,
                            before |-> Len(last.rule.log), log |-> r.log,
                            returned |-> r.returned]]
  /\ UNCHANGED << options, contextStack, functionContextCount, ctxs, envs,
                  obj, tryCatch, exception, frames, pending >>

\* toInt32(x) or toUint32(x) on a Number x.
Convert(unsigned, x) ==
  /\ Running
  /\ last' = [NoObs EXCEPT
                !.conv = [valid |-> TRUE, unsigned |-> unsigned, x |-> x,
                          result |-> IF unsigned THEN toUint32(x) ELSE toInt32(x)]]
  /\ UNCHANGED << options, contextStack, functionContextCount, ctxs, envs,
                  obj, tryCatch, exception, frames, pending >>

\* Object.isSealed(o) and Object.isFrozen(o) for an object o: the test of
\* step 2 runs for each own property inside the callback of forEach, whose
\* return value forEach discards, so the function goes on to step 3.
stepTwoFinds(o, frozen) ==
  LET desc == getOwnProperty(o)
  IN  /\ o.p.exists
      /\ \/ frozen /\ isDataDescriptor(desc) /\ desc.writable = "T"
         \/ desc.configurable = "T"

isSealedOrFrozen(o, frozen) ==
  CHOOSE res \in {~o.extensible : found \in {stepTwoFinds(o, frozen)}} : TRUE

ObjectIsSealedOrFrozen(frozen) ==
  /\ Running
  /\ last' = [NoObs EXCEPT
                !.sealed = [valid |-> TRUE, frozen |-> frozen,
                            result |-> isSealedOrFrozen(obj, frozen),
                            found |-> stepTwoFinds(obj, frozen)]]
  /\ UNCHANGED << options, contextStack, functionContextCount, ctxs, envs,
                  obj, tryCatch, exception, frames, pending >>

\* Object.preventExtensions(o)
PreventExtensions ==
  /\ Running
  /\ obj.extensible
  /\ obj' = [obj EXCEPT !.extensible = FALSE]
  /\ last' = NoObs
  /\ UNCHANGED << options, contextStack, functionContextCount, ctxs, envs,
                  tryCatch, exception, frames, pending >>

\* Declaration binding of "function p" in global code (strict or not).
DeclareFunctionP(strict) ==
  LET w == World
  IN  \E r \in {initGlobalAST(w, options, obj, FunctionType(Cur), strict)} :
      /\ Running
      /\ obj' = r.o
      /\ last' = [NoObs EXCEPT
                    !.def = [NoDef EXCEPT
                               !.valid = TRUE, !.op = "declare",
                               !.skipped = isSkippedMode(w),
                               !.amb = isAmbiguousBlock(w),
                               !.v = FunctionType(Cur),
                               !.before = obj.p, !.after = r.o.p,
                               !.raise = r.raise, !.strict = strict,
                               !.extensible = obj.extensible],
                    !.handle = HandleObs(w, r.handled)]
      /\ RaiseIf(r.raise)
      /\ UNCHANGED << options, contextStack, functionContextCount, ctxs, envs,
                      tryCatch, frames >>

\* new Array(args...)
NewArray(args) ==
  LET w == World
  IN  \E r \in {construct(w, options, args)} :
      /\ Running
      /\ obj' = IF r.made THEN r.o ELSE obj
      /\ frames' = IF r.made
                   THEN [i \in 1..Len(frames) |-> [frames[i] EXCEPT !.objSame = FALSE]]
                   ELSE frames
      /\ last' = [NoObs EXCEPT !.handle = HandleObs(w, r.handled)]
      /\ RaiseIf(r.raise)
      /\ UNCHANGED << options, contextStack, functionContextCount, ctxs, envs,
                      tryCatch >>

\* array.defineOwnProperty(index, desc, throwFlag)
ArrayDefine(index, desc, throwFlag) ==
  LET w == World
  IN  \E r \in {ArrayDefineOwnProperty(w, options, obj, index, desc, throwFlag)} :
      /\ Running
      /\ obj.className = "Array"
      /\ obj' = r.o
      /\ last' = [NoObs EXCEPT
                    !.arr = [valid |-> TRUE, index |-> index, ret |-> r.ret,
                             returned |-> r.returned,
                             raise |-> r.raise, lenBefore |-> getLength(w, obj),
                             lenAfter |-> getLength(w, r.o),
                             skipped |-> isSkippedMode(w)],
                    !.handle = HandleObs(w, r.handled)]
      /\ RaiseIf(r.raise)
      /\ UNCHANGED << options, contextStack, functionContextCount, ctxs, envs,
                      tryCatch, frames >>

\* array.length = v
ArrayPutLength(v, throwFlag) ==
  LET w == World
  IN  \E r \in {putLength(w, options, obj, v, throwFlag)} :
      /\ Running
      /\ obj.className = "Array"
      /\ obj' = r.o
      /\ last' = [NoObs EXCEPT !.handle = HandleObs(w, r.handled)]
      /\ RaiseIf(r.raise)
      /\ UNCHANGED << options, contextStack, functionContextCount, ctxs, envs,
                      tryCatch, frames >>

\* ------------------------------------------------------ the context stack
Pop(seq) == SubSeq(seq, 1, Len(seq) - 1)

\* enterContext(context), with the context and its environment record added
\* to the world (env = 0: a fresh declarative record whose outer is outer;
\* otherwise the context shares the record env).
enterContext(w, env, outer, isFn) ==
  LET fresh  == env = 0
      envId  == IF fresh THEN Len(w.envs) + 1 ELSE env
      envs1  == IF fresh
                THEN Append(w.envs, [outer |-> outer, ambiguousContext |-> FALSE,
                                     skipStack |-> << >>, x |-> NoBinding])
                ELSE w.envs
      ctxId  == Len(w.ctxs) + 1
  IN  [stack |-> Append(w.stack, ctxId),
       ctxs  |-> Append(w.ctxs, [lexEnv |-> envId, amb |-> 0,
                                 isFunctionContext |-> isFn]),
       envs  |-> envs1]

SetWorld(w) ==
  /\ contextStack' = w.stack
  /\ ctxs' = w.ctxs
  /\ envs' = w.envs

\* The contexts that a value still refers to through _closure.
ValClosures(v) == IF v = NoVal THEN {} ELSE {v.closure}

DescClosures(d) ==
  ValClosures(d.value) \cup ValClosures(d.get) \cup ValClosures(d.set)

BindingClosures(b) ==
  ValClosures(b.value) \cup UNION {ValClosures(b.alt[k]) : k \in DOMAIN b.alt}

ObjClosures(o) ==
  {o.closure} \cup DescClosures(o.p.value)
    \cup UNION {DescClosures(o.p.alt[k]) : k \in DOMAIN o.p.alt}

RECURSIVE Release(_)
\* Once popped, a context that nothing refers to is garbage, and so is its
\* environment record: the newest context and record are dropped while no
\* stack entry, no _closure and no other context refers to them.
Release(w) ==
  LET c       == Len(w.ctxs)
      e       == w.ctxs[c].lexEnv
      dropEnv == /\ e = Len(w.envs)
                 /\ e > 1
                 /\ \A d \in 1..(c - 1) : w.ctxs[d].lexEnv # e
      kept    == IF dropEnv THEN Pop(w.envs) ELSE w.envs
      refs    == ObjClosures(obj)
                   \cup UNION {BindingClosures(kept[k].x) : k \in 1..Len(kept)}
  IN  IF c > 1 /\ (\A i \in 1..Len(w.stack) : w.stack[i] # c) /\ c \notin refs
      THEN Release([stack |-> w.stack, ctxs |-> Pop(w.ctxs), envs |-> kept])
      ELSE w

\* exitContext(): pop whatever context is on top.
exitContext ==
  /\ SetWorld(Release([World EXCEPT !.stack = Pop(contextStack)]))
  /\ functionContextCount' =
       IF ctxs[contextStack[Len(contextStack)]].isFunctionContext
       THEN functionContextCount - 1 ELSE functionContextCount

\* What handleRecoverableNativeException does for the declarations of a code
\* unit after enterContext.  "bad": a strict function declaration with an
\* invalid name or parameter list (processFunctionDefinition).
DeclHandled(w, decl) ==
  IF decl = "bad" THEN handleRecoverableNativeException(w, options) ELSE "none"

\* The exception binding the declarations raises.  "clash": a declaration
\* that clashes with a non-configurable, non-writable global
\* (createEvalContext only).
DeclRaise(w, decl) ==
  IF decl = "bad"
  THEN IF DeclHandled(w, decl) = "thrown" THEN "engine"
       ELSE IF options.exactMode THEN "host"
       ELSE "none"
  ELSE IF decl = "clash" THEN "engine"
  ELSE "none"

CallFrame(len) ==
  [NoFrame EXCEPT !.kind = "call", !.phase = "body", !.i = 1, !.len = len,
                  !.log = [k \in 1..len |-> [n |-> 0, s |-> 0]],
                  !.stackBefore = contextStack]

RunFrame(kind) ==
  [NoFrame EXCEPT !.kind = kind, !.phase = "run", !.i = 1, !.len = 1,
                  !.stackBefore = contextStack]

\* ----------------------------------------- FunctionType.prototype.callFunction
\* The engine declines to invoke: the result is a new UnknownType.
CallDeclined(alwaysInvoke) ==
  /\ Running
  /\ ~options.invokeMethods /\ ~alwaysInvoke
  /\ RaiseIf(IF options.exactMode THEN "host" ELSE "none")
  /\ last' = [NoObs EXCEPT
                !.exit = ExitObs("call", contextStack, contextStack,
                                 IF options.exactMode THEN "throw" ELSE "return",
                                 "Unknown"),
                !.body = [NoBody EXCEPT !.valid = TRUE, !.how = "declined",
                            !.len = MaxBody,
                            !.log = [k \in 1..MaxBody |-> [n |-> 0, s |-> 0]]]]
  /\ UNCHANGED << options, contextStack, functionContextCount, ctxs, envs, obj,
                  tryCatch, frames >>

\* The world after createFunctionContext has pushed the context and bound
\* the declarations, and callFunction has set _ambiguousContext.
FunctionWorld(scope, declX, ambiguous) ==
  LET w0 == World
      w1 == enterContext(w0, 0, scope, TRUE)
      e  == currentLexEnv(w1)
      b0 == createMutableBinding(w1, FALSE)
      b1 == setMutableBinding(w1, options, b0,
                              UndefinedType(getCurrentContext(w1)), FALSE).b
      x1 == IF declX THEN b1 ELSE NoBinding
  IN  [w1 EXCEPT !.envs[e].x = x1,
                 !.envs[e].ambiguousContext = ambiguous \/ isAmbiguousBlock(w0)]

\* createFunctionContext throws after enterContext: the call is outside the
\* try block of callFunction.
CallContextThrows(scope, alwaysInvoke) ==
  LET w1 == enterContext(World, 0, scope, TRUE)
      r  == DeclRaise(w1, "bad")
  IN  /\ Running
      /\ options.invokeMethods \/ alwaysInvoke
      /\ Len(ctxs) < MaxCtx
      /\ r # "none"
      /\ SetWorld(w1)
      /\ functionContextCount' = functionContextCount + 1
      /\ Raise(r)
      /\ last' = [NoObs EXCEPT
                    !.handle = HandleObs(w1, DeclHandled(w1, "bad")),
                    !.exit = ExitObs("call", contextStack, w1.stack, "throw", "none")]
      /\ UNCHANGED << options, obj, tryCatch, frames >>

\* Entry of callFunction up to the first statement of the body.
CallFunction(scope, len, declX, decl, ambiguous, alwaysInvoke) ==
  LET w1 == enterContext(World, 0, scope, TRUE)
      w2 == FunctionWorld(scope, declX, ambiguous)
      ho == HandleObs(w1, DeclHandled(w1, decl))
  IN  /\ Running
      /\ options.invokeMethods \/ alwaysInvoke
      /\ Len(ctxs) < MaxCtx
      /\ Len(frames) < MaxDepth
      /\ ambiguous => ~options.exactMode
      /\ DeclRaise(w1, decl) = "none"
      /\ IF len = 0
         THEN /\ SetWorld(Release([w2 EXCEPT !.stack = contextStack]))
              /\ UNCHANGED << functionContextCount, frames >>
              /\ last' = [NoObs EXCEPT
                            !.handle = ho,
                            !.exit = ExitObs("call", contextStack, contextStack,
                                             "return", "Undefined"),
                            !.body = [NoBody EXCEPT !.valid = TRUE,
                                                    !.how = "normal"]]
         ELSE /\ SetWorld(w2)
              /\ functionContextCount' = functionContextCount + 1
              /\ frames' = Append(frames, CallFrame(len))
              /\ last' = [NoObs EXCEPT !.handle = ho]
      /\ UNCHANGED << options, obj, tryCatch, exception, pending >>

\* finally { exitContext(); } and the end of callFunction.
CallExit(f, how, res) ==
  /\ exitContext
  /\ frames' = Pop(frames)
  /\ last' = [NoObs EXCEPT
                !.exit = ExitObs("call", f.stackBefore, Pop(contextStack), how, res),
                !.body = [valid |-> TRUE, len |-> f.len, stop |-> f.i,
                          how |-> f.result, log |-> f.log, blacklisted |-> f.bl,
                          unroll |-> f.un, skipRaised |-> f.sr]]

ResultOf(c) ==
  CASE c = "return" -> "Value"
    [] c = "throw"  -> "Completion"
    [] OTHER        -> "Undefined"

\* The section ids that are on the skipped-mode stack of some record.
LiveSections(es) ==
  UNION {{es[e].skipStack[k] : k \in 1..Len(es[e].skipStack)} : e \in 1..Len(es)}

\* skippedModeCounter++ yields an id no other section has.  Ids are only
\* compared for equality, and the entries of alternateValues under the id of
\* a closed section are never read again: the model names a new section with
\* the smallest id that no open section holds.
skippedModeCounter ==
  CHOOSE id \in (1..MaxSkip) \ LiveSections(envs) :
    \A d \in (1..MaxSkip) \ LiveSections(envs) : id <= d

\* alternateValues without the entries of closed sections.
OpenAlt(alt, es) ==
  [k \in (DOMAIN alt) \cap LiveSections(es) |-> alt[k]]

\* The environment records of the contexts on the stack.
StackEnvs(w) == {w.ctxs[w.stack[i]].lexEnv : i \in 1..Len(w.stack)}

\* processInSkippedMode up to the first call of its closure: push a fresh
\* section id on the record of the current context and run the closure that
\* processes statements from..len.
SkipFrame(from, len, after) ==
  [NoFrame EXCEPT !.kind = "skip", !.phase = "run", !.i = from, !.len = len,
                  !.after = after,
                  !.pushedEnv = currentLexEnv(World),
                  !.pushedId = skippedModeCounter,
                  !.skipBefore = [e \in StackEnvs(World) |-> envs[e].skipStack],
                  !.primBefore = [e \in StackEnvs(World) |->
                                    [exists |-> envs[e].x.exists,
                                     value |-> envs[e].x.value]],
                  !.objBefore = getOwnProperty(obj),
                  !.objSame = TRUE]

EnterSkippedMode ==
  /\ LiveSections(envs) # 1..MaxSkip
  /\ envs' = [envs EXCEPT ![currentLexEnv(World)].skipStack =
                             Append(@, skippedModeCounter)]

\* The statement code[i] of the running body returns the completion c.
CallStmtComplete(c, blacklisted) ==
  LET n == Len(frames)
      f == [Top EXCEPT !.log[Top.i].n = @ + 1, !.result = c]
  IN  /\ Running
      /\ n > 0
      /\ Top.kind = "call"
      /\ IF c = "normal"
         THEN /\ ~blacklisted
              /\ IF f.i < f.len
                 THEN /\ frames' = [frames EXCEPT ![n] = [f EXCEPT !.i = @ + 1]]
                      /\ last' = NoObs
                      /\ UNCHANGED << contextStack, functionContextCount,
                                      ctxs, envs >>
                 ELSE CallExit([f EXCEPT !.i = 0], "return", "Undefined")
         ELSE IF blacklisted
         THEN CallExit([f EXCEPT !.bl = TRUE], "return", ResultOf(c))
         ELSE /\ EnterSkippedMode
              /\ frames' = Append([frames EXCEPT ![n] =
                                     [f EXCEPT !.phase = "afterSkip",
                                               !.after = "break"]],
                                  SkipFrame(f.i + 1, f.len, "break"))
              /\ last' = NoObs
              /\ UNCHANGED << contextStack, functionContextCount, ctxs >>
      /\ UNCHANGED << options, obj, tryCatch, exception, pending >>

\* A variant of the test below with the condition inverted.
SkipsRestOnlyInUnroll(inUnroll) == inUnroll

\* The test of the catch block of callFunction: process the rest of the body
\* in skipped mode before rethrowing?
SkipsRestOnThrow(inUnroll) == ~inUnroll

\* catch (e) around code[i].processRule(); inUnroll is what
\* RuleProcessor.inRecursionUnroll() answers.
CallCatch(blacklisted, inUnroll) ==
  LET n == Len(frames)
      f == [Top EXCEPT !.log[Top.i].n = @ + 1, !.result = "raise",
                       !.un = inUnroll]
  IN  /\ pending.kind # "none"
      /\ n > 0
      /\ Top.kind = "call" /\ Top.phase = "body"
      /\ IF ~SkipsRestOnThrow(inUnroll)
         THEN /\ ~blacklisted
              /\ CallExit(f, "throw", "none")
              /\ UNCHANGED pending
         ELSE IF blacklisted
         THEN /\ CallExit([f EXCEPT !.bl = TRUE], "throw", "none")
              /\ UNCHANGED pending
         ELSE /\ EnterSkippedMode
              /\ frames' = Append([frames EXCEPT ![n] =
                                     [f EXCEPT !.phase = "afterSkip",
                                               !.after = "rethrow",
                                               !.caught = pending]],
                                  SkipFrame(f.i + 1, f.len, "rethrow"))
              /\ pending' = NoPending
              /\ last' = NoObs
              /\ UNCHANGED << contextStack, functionContextCount, ctxs >>
      /\ UNCHANGED << options, obj, tryCatch, exception >>

\* processInSkippedMode has returned or thrown: break, or throw e, through
\* the finally block.
CallAfterSkip ==
  LET f == Top
  IN  /\ frames # << >>
      /\ f.kind = "call" /\ f.phase = "afterSkip"
      /\ IF pending.kind # "none"
         THEN /\ CallExit(f, "throw", "none")
              /\ UNCHANGED pending
         ELSE IF f.after = "rethrow"
         THEN /\ CallExit(f, "throw", "none")
              /\ pending' = f.caught
         ELSE /\ CallExit(f, "return", ResultOf(f.result))
              /\ UNCHANGED pending
      /\ UNCHANGED << options, obj, tryCatch, exception >>

\* ------------------------------------------------------ processInSkippedMode
\* A caller other than callFunction (a catch block with an Unknown trigger,
\* an Array method on an ambiguous this) runs a closure of len operations.
ProcessInSkippedMode(len, blacklisted) ==
  /\ Running
  /\ IF blacklisted
     THEN UNCHANGED << envs, frames >>
     ELSE /\ Len(frames) < MaxDepth
          /\ EnterSkippedMode
          /\ frames' = Append(frames, SkipFrame(1, len, "none"))
  /\ last' = NoObs
  /\ UNCHANGED << options, contextStack, functionContextCount, ctxs, obj,
                  tryCatch, exception, pending >>

\* The record whose skipped-mode stack the finally block pops: the record of
\* the context that is current at exit.
PoppedRecord(w, f) == currentLexEnv(w)

\* finally { ..._skippedModeStack.pop(); }
ExitSkippedMode ==
  LET popped == [envs EXCEPT ![PoppedRecord(World, Top)].skipStack =
                                IF Len(@) = 0 THEN @ ELSE Pop(@)]
  IN  /\ envs' = [e \in 1..Len(popped) |->
                    [popped[e] EXCEPT !.x.alt = OpenAlt(@, popped)]]
      /\ obj' = [obj EXCEPT
                   !.p.alt = OpenAlt(@, popped),
                   !.length.alt = OpenAlt(@, popped),
                   !.elems = [i \in DOMAIN @ |->
                                [@[i] EXCEPT !.alt = OpenAlt(@, popped)]]]

SkipObs(f, excIn, inUnroll, out) ==
  [valid |-> TRUE, excIn |-> excIn, unroll |-> inUnroll, out |-> out,
   skipBefore |-> f.skipBefore,
   skipAfter |-> [e \in DOMAIN f.skipBefore |-> envs'[e].skipStack],
   primBefore |-> f.primBefore,
   primAfter |-> [e \in DOMAIN f.primBefore |->
                    [exists |-> envs'[e].x.exists, value |-> envs'[e].x.value]],
   objBefore |-> f.objBefore, objAfter |-> getOwnProperty(obj),
   sameObj |-> f.objSame]

\* Mark statement f.i of the enclosing body as processed in skipped mode.
LogSkipped(fs, f) ==
  IF f.after = "none" THEN fs
  ELSE [fs EXCEPT ![Len(fs) - 1].log[f.i].s = @ + 1]

\* A statement run by the closure completes (its completion is ignored).
SkipStmtComplete ==
  LET n == Len(frames)
  IN  /\ Running
      /\ n > 0
      /\ Top.kind = "skip"
      /\ frames' = [LogSkipped(frames, Top) EXCEPT ![n].i = @ + 1]
      /\ last' = NoObs
      /\ UNCHANGED << options, contextStack, functionContextCount, ctxs, envs,
                      obj, tryCatch, exception, pending >>

\* The closure has returned.
SkipReturn ==
  /\ pending.kind = "none"
  /\ frames # << >>
  /\ Top.kind = "skip" /\ Top.i > Top.len
  /\ ExitSkippedMode
  /\ frames' = Pop(frames)
  /\ last' = [NoObs EXCEPT !.skip = SkipObs(Top, "none", FALSE, "return")]
  /\ UNCHANGED << options, contextStack, functionContextCount, ctxs,
                  tryCatch, exception, pending >>

\* A variant of the test below that rethrows the engine's exceptions and
\* swallows the host's.
RethrowsEngine(inUnroll, kind) == inUnroll \/ kind = "engine"

\* The test of the catch block of processInSkippedMode: rethrow?
Rethrows(inUnroll, kind) == inUnroll \/ kind # "engine"

\* catch (e) { ... } finally { pop } of processInSkippedMode; inUnroll is
\* what RuleProcessor.inRecursionUnroll() answers.
SkipCatch(inUnroll) ==
  LET fs == LogSkipped(frames, Top)
      re == Rethrows(inUnroll, pending.kind)
      ps == IF Top.after = "none" THEN Pop(fs)
            ELSE Pop([fs EXCEPT ![Len(fs) - 1].sr = TRUE])
  IN  /\ pending.kind # "none"
      /\ frames # << >>
      /\ Top.kind = "skip"
      /\ ExitSkippedMode
      /\ frames' = ps
      /\ pending' = IF re THEN pending ELSE NoPending
      /\ last' = [NoObs EXCEPT
                    !.skip = SkipObs(Top, pending.kind, inUnroll,
                                     IF re THEN "throw" ELSE "return")]
      /\ UNCHANGED << options, contextStack, functionContextCount, ctxs,
                      tryCatch, exception >>

\* ------------------------------------------------------- Ti.API plugin overrides
\* Names are sequences of tokens; a regex is the tokens it matches literally
\* (an escaped dot matches only ".") and its anchors.
ApiNames == {"debug", "error", "info", "log", "warn"}

FullName(n) == << "Titanium", ".", "API", ".", n >>

RegExp(n) == [literal |-> FullName(n), start |-> TRUE, end |-> TRUE]

\* regex.test(name) without the end anchor.
testUnanchored(regex, name) ==
  \E i \in 1..(Len(name) + 1) :
    /\ i + Len(regex.literal) - 1 <= Len(name)
    /\ SubSeq(name, i, i + Len(regex.literal) - 1) = regex.literal
    /\ regex.start => i = 1

\* regex.test(name): the literal occurs in name, at the start and up to the
\* end when anchored.
test(regex, name) ==
  \E i \in 1..(Len(name) + 1) :
    /\ i + Len(regex.literal) - 1 <= Len(name)
    /\ SubSeq(name, i, i + Len(regex.literal) - 1) = regex.literal
    /\ regex.start => i = 1
    /\ regex.end => i + Len(regex.literal) - 1 = Len(name)

\* globalObject.get('console').get(n).callFunction(thisVal, args): what the
\* console function returns tells which function ran, on what.
consoleCall(n, thisVal, args) == [by |-> n, thisVal |-> thisVal, args |-> args]

\* exports.getOverrides(options): the overrides, each named by the console
\* function n its callFunction delegates to; its regex is RegExp(n).
getOverrides(globalsOnly) == IF globalsOnly THEN {} ELSE ApiNames

\* The engine invokes the function called name: the overrides whose regex
\* matches, and what the callFunction of each returns.
InvokeNamed(globalsOnly, name, thisVal, args) ==
  \E ov \in {getOverrides(globalsOnly)} :
    /\ Running
    /\ last' = [NoObs EXCEPT
                  !.plugin = [valid |-> TRUE, globalsOnly |-> globalsOnly,
                              name |-> name, thisVal |-> thisVal, args |-> args,
                              registered |-> ov,
                              matched |-> {n \in ov : test(RegExp(n), name)},
                              results |-> {consoleCall(n, thisVal, args) :
                                             n \in {m \in ov : test(RegExp(m), name)}}]]
    /\ UNCHANGED << options, contextStack, functionContextCount, ctxs, envs,
                    obj, tryCatch, exception, frames, pending >>

\* ---------------------------------------------------------------- strictEquals
\* A value as strictEquals sees it: its type, its primitive value (nan marks
\* the Number NaN; n is the number, the truth value or the string's index)
\* and, for an object, its identity.
\* neg marks the Number -0.
Operand(t, nan, n, id) ==
  [type |-> t, nan |-> nan, n |-> n, id |-> id, neg |-> FALSE]

NegativeZero == [Operand("Number", FALSE, 0, 0) EXCEPT !.neg = TRUE]

Operands ==
  {Operand(t, FALSE, 0, 0) : t \in {"Undefined", "Null", "Unknown"}}
    \cup {Operand(t, FALSE, n, 0) : t \in {"Boolean", "String"}, n \in {0, 1}}
    \cup {Operand("Number", FALSE, n, 0) : n \in {0, 1}}
    \cup {Operand("Number", TRUE, 0, 0), NegativeZero}
    \cup {Operand("Object", FALSE, 0, id) : id \in {1, 2}}

\* The host's === on two primitive values of the same type: false when
\* either is NaN, true for +0 and -0.
hostStrictEquals(x, y) == ~x.nan /\ ~y.nan /\ x.n = y.n

\* strictEquals(x, y): the switch has no case for a type other than the six
\* it names, and the function then returns undefined.
strictEquals(x, y) ==
  IF type(x) # type(y) THEN "false"
  ELSE IF type(x) \in {"Undefined", "Null"} THEN "true"
  ELSE IF type(x) \in {"Boolean", "Number", "String"}
    THEN IF hostStrictEquals(x, y) THEN "true" ELSE "false"
  ELSE IF type(x) = "Object" THEN IF x.id = y.id THEN "true" ELSE "false"
  ELSE "undefined"

\* An argument that is the host's undefined (a descriptor without a value).
NoOperand == Operand("none", FALSE, 0, 0)

\* sameValue(x, y) of base.js, on operands.
sameValueOf(x, y) ==
  IF x = NoOperand /\ y = NoOperand THEN TRUE
  ELSE IF x = NoOperand \/ y = NoOperand THEN FALSE
  ELSE IF type(x) # type(y) THEN FALSE
  ELSE IF type(x) \in {"Undefined", "Null"} THEN TRUE
  ELSE IF type(x) \in {"Boolean", "Number", "String"} THEN hostStrictEquals(x, y)
  ELSE x = y

SameValue(x, y) ==
  /\ Running
  /\ last' = [NoObs EXCEPT !.same = [valid |-> TRUE, x |-> x, y |-> y,
                                       result |-> sameValueOf(x, y)]]
  /\ UNCHANGED << options, contextStack, functionContextCount, ctxs, envs,
                  obj, tryCatch, exception, frames, pending >>

StrictEquals(x, y) ==
  /\ Running
  /\ last' = [NoObs EXCEPT !.eq = [valid |-> TRUE, x |-> x, y |-> y,
                                     result |-> strictEquals(x, y)]]
  /\ UNCHANGED << options, contextStack, functionContextCount, ctxs, envs,
                  obj, tryCatch, exception, frames, pending >>

\* ------------------------------------------- a block that depends on an Unknown
\* The rule of a statement whose control flow depends on an Unknown value:
\* enterAmbiguousBlock(), the statements of the block, exitAmbiguousBlock().
\* The frame keeps what the counters and skipped-mode stacks were at entry.
AmbiguousBlockEnter ==
  /\ Running
  /\ ~options.exactMode
  /\ ctxs[Cur].amb < MaxAmb
  /\ Len(frames) < MaxDepth
  /\ ctxs' = [ctxs EXCEPT ![Cur].amb = @ + 1]
  /\ frames' = Append(frames,
                      [RunFrame("amb") EXCEPT
                         !.ambBefore = [c \in DOMAIN ctxs |-> ctxs[c].amb],
                         !.skipBefore = [e \in DOMAIN envs |-> envs[e].skipStack]])
  /\ last' = NoObs
  /\ UNCHANGED << options, contextStack, functionContextCount, envs, obj,
                  tryCatch, exception, pending >>

\* exitAmbiguousBlock() at the end of the block: the counter decremented is
\* that of the context which is current now.
AmbiguousBlockExit ==
  /\ Running
  /\ frames # << >>
  /\ Top.kind = "amb"
  /\ ctxs' = [ctxs EXCEPT ![Cur].amb = @ - 1]
  /\ frames' = Pop(frames)
  /\ last' = [NoObs EXCEPT
                !.amb = [valid |-> TRUE,
                         ctx |-> Top.stackBefore[Len(Top.stackBefore)],
                         exitCtx |-> Cur,
                         ambBefore |-> Top.ambBefore,
                         ambAfter |-> [c \in DOMAIN Top.ambBefore |-> ctxs'[c].amb],
                         skipBefore |-> Top.skipBefore,
                         skipAfter |-> [e \in DOMAIN Top.skipBefore |->
                                          envs[e].skipStack]]]
  /\ UNCHANGED << options, contextStack, functionContextCount, envs, obj,
                  tryCatch, exception, pending >>

\* ------------------------------------------------------------ wrapNativeCall
NativeCall ==
  LET w1 == enterContext(World, 0, currentLexEnv(World), TRUE)
  IN  /\ Running
      /\ Len(ctxs) < MaxCtx
      /\ Len(frames) < MaxDepth
      /\ SetWorld(w1)
      /\ functionContextCount' = functionContextCount + 1
      /\ frames' = Append(frames, RunFrame("native"))
      /\ last' = NoObs
      /\ UNCHANGED << options, obj, tryCatch, exception, pending >>

\* func.apply returns or throws; finally { exitContext(); }
NativeExit ==
  /\ frames # << >>
  /\ Top.kind = "native"
  /\ exitContext
  /\ frames' = Pop(frames)
  /\ last' = [NoObs EXCEPT
                !.exit = ExitObs("native", Top.stackBefore, Pop(contextStack),
                                 IF pending.kind = "none" THEN "return" ELSE "throw",
                                 "Value")]
  /\ UNCHANGED << options, obj, tryCatch, exception, pending >>

\* ------------------------------------------------- Math.random and the Date functions
\* The host functions of the library whose result differs between runs.
HostFunctions == {"Math.random", "Date.now", "Date", "new Date", "Date.parse", "Date.UTC"}

\* What the host's clock or random generator yields in one call.
HostReadings == {1, 2}

\* new UnknownType(): the constructor throws a host Error in exactMode.
newUnknownType(opts, c) ==
  IF opts.exactMode THEN [value |-> NoVal, raise |-> "host"]
  ELSE [value |-> UnknownType(c), raise |-> "none"]

\* The body callFunction / construct of host function fn, with reading n of
\* the host: Math.random, Date.now, Date() and new Date() test exactMode,
\* Date.parse and Date.UTC return new UnknownType() whatever the mode.
hostFunction(fn, opts, c, n) ==
  IF fn \in {"Date.parse", "Date.UTC"} THEN newUnknownType(opts, c)
  ELSE IF ~opts.exactMode THEN newUnknownType(opts, c)
  ELSE IF fn \in {"Math.random", "Date.now"}
    THEN [value |-> NumberType(n, c), raise |-> "none"]
  ELSE IF fn = "Date"
    THEN [value |-> [type |-> "String", val |-> n, closure |-> c], raise |-> "none"]
  ELSE [value |-> [type |-> "Object", val |-> n, closure |-> c], raise |-> "none"]

\* A call of host function fn, run inside wrapNativeCall.
HostCall(fn, n) ==
  \E r \in {hostFunction(fn, options, Cur, n)} :
    /\ Running
    /\ frames # << >>
    /\ Top.kind = "native"
    /\ RaiseIf(r.raise)
    /\ last' = [NoObs EXCEPT
                  !.host = [valid |-> TRUE, fn |-> fn, value |-> r.value,
                            raise |-> r.raise]]
    /\ UNCHANGED << options, contextStack, functionContextCount, ctxs, envs,
                    obj, tryCatch, frames >>

\* ------------------------------------------ FunctionConstructor.prototype.construct
\* Steps 7-8 of the Function constructor, run inside wrapNativeCall, when
\* AST.parseString reports a syntax error: handleRecoverableNativeException,
\* then return new UnknownType().
FunctionSyntaxError ==
  LET w == World
      h == handleRecoverableNativeException(w, options)
      k == IF h = "thrown" THEN "engine"
           ELSE IF options.exactMode THEN "host" ELSE "none"
  IN  /\ Running
      /\ frames # << >>
      /\ Top.kind = "native"
      /\ RaiseIf(k)
      /\ last' = [NoObs EXCEPT
                    !.handle = HandleObs(w, h),
                    !.parse = [valid |-> TRUE, source |-> "Function",
                               inTry |-> inTryCatch, skipped |-> isSkippedMode(w),
                               outcome |-> IF h = "thrown" THEN "thrown"
                                           ELSE IF options.exactMode THEN "host"
                                           ELSE IF h = "reported" THEN "recovered"
                                           ELSE "silent"]]
      /\ UNCHANGED << options, contextStack, functionContextCount, ctxs, envs,
                      obj, tryCatch, frames >>

\* ------------------------------------------ EvalFunction.prototype.callFunction
\* The context createEvalContext enters: the records of the calling context,
\* or a fresh declarative record in strict code.
EvalWorld(strict) ==
  enterContext(World, IF strict THEN 0 ELSE currentLexEnv(World),
               currentLexEnv(World), FALSE)

\* AST.parseString reports a syntax error.
EvalSyntaxError ==
  LET recover == ~inTryCatch /\ options.nativeExceptionRecovery
                 /\ ~options.exactMode
  IN  /\ Running
      /\ RaiseIf(IF recover THEN "none" ELSE "engine")
      /\ last' = [NoObs EXCEPT
                    !.exit = ExitObs("eval", contextStack, contextStack,
                                     IF recover THEN "return" ELSE "throw",
                                     IF recover THEN "Unknown" ELSE "SyntaxError"),
                    !.parse = [valid |-> TRUE, source |-> "eval",
                               inTry |-> inTryCatch,
                               skipped |-> isSkippedMode(World),
                               outcome |-> IF recover THEN "recovered" ELSE "thrown"]]
      /\ UNCHANGED << options, contextStack, functionContextCount, ctxs, envs,
                      obj, tryCatch, frames >>

\* createEvalContext throws after enterContext: the call is outside the try
\* block of callFunction.
EvalContextThrows(strict, decl) ==
  LET w1 == EvalWorld(strict)
      r  == DeclRaise(w1, decl)
  IN  /\ Running
      /\ Len(ctxs) < MaxCtx
      /\ decl = "clash" => ~strict /\ currentLexEnv(World) = 1
      /\ r # "none"
      /\ SetWorld(w1)
      /\ Raise(r)
      /\ last' = [NoObs EXCEPT
                    !.handle = HandleObs(w1, DeclHandled(w1, decl)),
                    !.exit = ExitObs("eval", contextStack, w1.stack, "throw", "none")]
      /\ UNCHANGED << options, functionContextCount, obj, tryCatch, frames >>

\* Steps 2-3 of eval: parse, createEvalContext, then process the program.
EvalCall(strict, decl) ==
  LET w1 == EvalWorld(strict)
  IN  /\ Running
      /\ Len(ctxs) < MaxCtx
      /\ Len(frames) < MaxDepth
      /\ DeclRaise(w1, decl) = "none"
      /\ SetWorld(w1)
      /\ frames' = Append(frames, RunFrame("eval"))
      /\ last' = [NoObs EXCEPT !.handle = HandleObs(w1, DeclHandled(w1, decl))]
      /\ UNCHANGED << options, functionContextCount, obj, tryCatch, exception, pending >>

\* Steps 4-6: ast.processRule() returns the completion c.
EvalStmtComplete(c) ==
  /\ Running
  /\ frames # << >>
  /\ Top.kind = "eval"
  /\ exitContext
  /\ frames' = Pop(frames)
  /\ RaiseIf(IF c = "normal" THEN "none" ELSE "engine")
  /\ last' = [NoObs EXCEPT
                !.exit = ExitObs("eval", Top.stackBefore, Pop(contextStack),
                                 IF c = "normal" THEN "return" ELSE "throw",
                                 IF c = "normal" THEN "Value" ELSE "none")]
  /\ UNCHANGED << options, obj, tryCatch >>

\* ast.processRule() throws; finally { exitContext(); }
EvalFinally ==
  /\ pending.kind # "none"
  /\ frames # << >>
  /\ Top.kind = "eval"
  /\ exitContext
  /\ frames' = Pop(frames)
  /\ last' = [NoObs EXCEPT
                !.exit = ExitObs("eval", Top.stackBefore, Pop(contextStack),
                                 "throw", "none")]
  /\ UNCHANGED << options, obj, tryCatch, exception, pending >>

\* ------------------------------------------------------------------- specs
Completions == {"normal", "return", "break", "continue", "throw"}

\* Control flow: contexts, skipped sections, exceptions.
Next ==
  \/ enterTryCatch
  \/ exitTryCatch
  \/ HandleRecoverable
  \/ \E k \in {"engine", "host"} : Throw(k)
  \/ CallDeclined(FALSE)
  \/ CallContextThrows(currentLexEnv(World), FALSE)
  \/ \E len \in 0..MaxBody, d \in {"ok", "bad"} :
        CallFunction(currentLexEnv(World), len, FALSE, d, FALSE, FALSE)
  \/ \E c \in Completions, b \in BOOLEAN : CallStmtComplete(c, b)
  \/ \E b \in BOOLEAN, u \in BOOLEAN : CallCatch(b, u)
  \/ CallAfterSkip
  \/ \E len \in 1..MaxBody, b \in BOOLEAN : ProcessInSkippedMode(len, b)
  \/ SkipStmtComplete
  \/ SkipReturn
  \/ \E u \in BOOLEAN : SkipCatch(u)
  \/ NativeCall
  \/ NativeExit
  \/ EvalSyntaxError
  \/ \E st \in BOOLEAN, d \in {"bad", "clash"} : EvalContextThrows(st, d)
  \/ \E st \in BOOLEAN, d \in {"ok", "bad"} : EvalCall(st, d)
  \/ \E c \in Completions : EvalStmtComplete(c)
  \/ EvalFinally

Spec == Init /\ [][Next]_vars

\* Function bodies and skipped sections only, under one set of options.
InitSkip ==
  InitWith({[exactMode |-> FALSE, nativeExceptionRecovery |-> TRUE,
             invokeMethods |-> TRUE]}, NoBinding)

NextSkip ==
  \/ \E k \in {"engine", "host"} : Throw(k)
  \/ \E len \in 0..MaxBody :
        CallFunction(currentLexEnv(World), len, FALSE, "ok", FALSE, FALSE)
  \/ \E c \in Completions, b \in BOOLEAN : CallStmtComplete(c, b)
  \/ \E b \in BOOLEAN, u \in BOOLEAN : CallCatch(b, u)
  \/ CallAfterSkip
  \/ \E len \in 1..MaxBody, b \in BOOLEAN : ProcessInSkippedMode(len, b)
  \/ SkipStmtComplete
  \/ SkipReturn
  \/ \E u \in BOOLEAN : SkipCatch(u)

SpecSkip == InitSkip /\ [][NextSkip]_vars

\* Bindings and properties: a global program that declares "var x", outside
\* exact mode (no Unknown value exists in exact mode).
GlobalX ==
  [exists |-> TRUE, value |-> UndefinedType(1), alt |-> << >>,
   isDeletable |-> FALSE, isMutable |-> TRUE, isInitialized |-> "U"]

InitData ==
  InitWith({[exactMode |-> FALSE, nativeExceptionRecovery |-> TRUE,
             invokeMethods |-> TRUE]}, GlobalX)

\* Variable writes in ambiguous blocks and function contexts.
NextBind ==
  \/ enterAmbiguousBlock
  \/ exitAmbiguousBlock
  \/ \E v \in NewValues : SetX(v, FALSE)
  \/ \E dx \in BOOLEAN :
        CallFunction(currentLexEnv(World), 1, dx, "ok", FALSE, FALSE)
  \/ CallStmtComplete("normal", FALSE)

SpecBind == InitData /\ [][NextBind]_vars

\* Property definitions in ambiguous blocks and function contexts.
NextProp ==
  \/ enterAmbiguousBlock
  \/ exitAmbiguousBlock
  \/ NewObject
  \/ \E d \in DescInputs : DefineP(d, FALSE)
  \/ \E v \in NewValues, t \in BOOLEAN : PutP(v, t)
  \/ CallFunction(currentLexEnv(World), 1, FALSE, "ok", FALSE, FALSE)
  \/ CallStmtComplete("normal", FALSE)

SpecProp == InitData /\ [][NextProp]_vars

\* A NumberType created in the current context.
Seven == NumberType(7, Cur)

\* Variable and property writes of local values.
NextData ==
  \/ enterAmbiguousBlock
  \/ exitAmbiguousBlock
  \/ NewObject
  \/ SetX(Seven, FALSE)
  \/ DefineP(Desc(Seven, "T", NoVal, NoVal, "T", "T"), FALSE)
  \/ CallFunction(currentLexEnv(World), 1, TRUE, "ok", FALSE, FALSE)
  \/ CallStmtComplete("normal", FALSE)

SpecData == InitData /\ [][NextData]_vars

NextSkipData ==
  \/ SetX(Seven, FALSE)
  \/ DefineP(Desc(Seven, "T", NoVal, NoVal, "T", "T"), FALSE)
  \/ PutP(Seven, FALSE)
  \/ CallFunction(currentLexEnv(World), 1, FALSE, "ok", FALSE, FALSE)
  \/ CallStmtComplete("normal", FALSE)
  \/ ProcessInSkippedMode(1, FALSE)
  \/ SkipStmtComplete
  \/ SkipReturn

SpecSkipData == InitData /\ [][NextSkipData]_vars

\* Recoverable errors in exact mode, inside and outside skipped sections
\* and try/catch.
InitExact ==
  InitWith([exactMode : {TRUE}, nativeExceptionRecovery : BOOLEAN,
            invokeMethods : {TRUE}], NoBinding)

NextExact ==
  \/ enterTryCatch
  \/ exitTryCatch
  \/ HandleRecoverable
  \/ \E len \in 0..MaxBody :
        CallFunction(currentLexEnv(World), len, FALSE, "ok", FALSE, FALSE)
  \/ \E c \in Completions : CallStmtComplete(c, FALSE)
  \/ \E u \in BOOLEAN : CallCatch(FALSE, u)
  \/ CallAfterSkip
  \/ \E len \in 1..MaxBody : ProcessInSkippedMode(len, FALSE)
  \/ SkipStmtComplete
  \/ SkipReturn

SpecExact == InitExact /\ [][NextExact]_vars

\* The assignment o.p = 8 on a property defined with
\* Object.defineProperty(o, "p", {value: 7, writable: false}), in strict and
\* in non-strict code, under every setting of the options.
Eight == NumberType(8, Cur)

SevenReadOnly == Desc(Seven, "F", NoVal, NoVal, "U", "U")

NextPut ==
  \/ NewObject
  \/ DefineP(SevenReadOnly, TRUE)
  \/ \E t \in BOOLEAN : PutP(Eight, t)
  \/ CallFunction(currentLexEnv(World), 1, FALSE, "ok", FALSE, FALSE)
  \/ CallStmtComplete("normal", FALSE)
  \/ \E u \in BOOLEAN : CallCatch(FALSE, u)
  \/ CallAfterSkip
  \/ SkipReturn

SpecPut == Init /\ [][NextPut]_vars

\* The operations on one object: definitions with data, accessor and
\* generic descriptors, assignments, deletions and preventExtensions, in
\* global code and in a function, inside and outside ambiguous blocks.
GenericDescriptor == Desc(NoVal, "U", NoVal, NoVal, "F", "U")

ObjInputs ==
  DataInputs
    \cup {SevenReadOnly, GenericDescriptor,
          Desc(NoVal, "U", FunctionType(1), FunctionType(1), "T", "T")}

NextObj ==
  \/ enterAmbiguousBlock
  \/ exitAmbiguousBlock
  \/ NewObject
  \/ PreventExtensions
  \/ \E d \in ObjInputs, t \in BOOLEAN : DefineP(d, t)
  \/ \E t \in BOOLEAN : PutP(Eight, t)
  \/ \E t \in BOOLEAN : DeleteP(t)
  \/ GetP
  \/ CallFunction(currentLexEnv(World), 1, FALSE, "ok", FALSE, FALSE)
  \/ CallStmtComplete("normal", FALSE)

SpecObj == InitData /\ [][NextObj]_vars

\* Arrays: construction, definitions of integer names and writes of length,
\* in and out of skipped mode.
ArrayArgs ==
  {<< >>} \cup {<< NumberType(n, Cur) >> : n \in {MaxIndex + 1, 0 - 1, Modulus + 1}}

ArrayInputs ==
  {Desc(Seven, "T", NoVal, NoVal, "T", "T"), SevenReadOnly}

LengthInputs == {NumberType(0, Cur), UnknownType(Cur)}

NextArr ==
  \/ \E args \in ArrayArgs : NewArray(args)
  \/ PreventExtensions
  \/ \E i \in {0, MaxIndex}, d \in ArrayInputs : ArrayDefine(i, d, TRUE)
  \/ \E v \in LengthInputs : ArrayPutLength(v, TRUE)
  \/ frames = << >> /\ ProcessInSkippedMode(1, FALSE)
  \/ SkipStmtComplete
  \/ SkipReturn

SpecArr == InitData /\ [][NextArr]_vars

\* Immutable bindings: created, initialised and assigned to, in and out of
\* function contexts.
InitImm ==
  InitWith([exactMode : {FALSE}, nativeExceptionRecovery : BOOLEAN,
            invokeMethods : {TRUE}], NoBinding)

NextImm ==
  \/ CreateImmutableX
  \/ \E v \in NewValues : InitializeImmutableX(v)
  \/ \E v \in {Seven, Eight}, s \in BOOLEAN : SetX(v, s)
  \/ CallFunction(currentLexEnv(World), 1, FALSE, "ok", FALSE, FALSE)
  \/ CallStmtComplete("normal", FALSE)
  \/ \E u \in BOOLEAN : CallCatch(FALSE, u)

SpecImm == InitImm /\ [][NextImm]_vars

\* Declaration binding of a function whose name the global object already
\* has or does not have.
GlobalInputs ==
  {Desc(Seven, w, NoVal, NoVal, e, c) : w \in {"T", "F"}, e \in {"T", "F"}, c \in {"T", "F"}}
    \cup {Desc(NoVal, "U", FunctionType(1), FunctionType(1), "T", "F")}

NextDecl ==
  \/ NewObject
  \/ \E d \in GlobalInputs : DefineP(d, FALSE)
  \/ \E s \in BOOLEAN : DeclareFunctionP(s)
  \/ enterTryCatch
  \/ exitTryCatch

SpecDecl == Init /\ [][NextDecl]_vars

\* Syntax errors in eval and in the Function constructor, in and out of
\* try/catch and skipped mode.
NextParse ==
  \/ enterTryCatch
  \/ exitTryCatch
  \/ EvalSyntaxError
  \/ NativeCall
  \/ FunctionSyntaxError
  \/ NativeExit
  \/ \E len \in 1..MaxBody : ProcessInSkippedMode(len, FALSE)
  \/ SkipStmtComplete
  \/ SkipReturn
  \/ \E u \in BOOLEAN : SkipCatch(u)

SpecParse == Init /\ [][NextParse]_vars

\* Calls of the host functions, inside and outside try/catch.
NextHost ==
  \/ enterTryCatch
  \/ exitTryCatch
  \/ NativeCall
  \/ \E fn \in HostFunctions, n \in HostReadings : HostCall(fn, n)
  \/ NativeExit

SpecHost == Init /\ [][NextHost]_vars

\* Blocks that depend on an Unknown and skipped sections, nested in either
\* order, around calls and eval code.
NextAmb ==
  \/ AmbiguousBlockEnter
  \/ AmbiguousBlockExit
  \/ \E len \in 1..MaxBody : ProcessInSkippedMode(len, FALSE)
  \/ SkipStmtComplete
  \/ SkipReturn
  \/ \E u \in BOOLEAN : SkipCatch(u)
  \/ CallFunction(currentLexEnv(World), 1, FALSE, "ok", FALSE, FALSE)
  \/ CallStmtComplete("normal", FALSE)
  \/ \E st \in BOOLEAN, d \in {"bad", "clash"} : EvalContextThrows(st, d)

SpecAmb == Init /\ [][NextAmb]_vars

\* Comparisons of every pair of operands.
NextEquals == \E x \in Operands, y \in Operands : StrictEquals(x, y)

SpecEquals == InitData /\ [][NextEquals]_vars

\* sameValue on every pair of operands, absent ones included.
NextSame ==
  \E x \in Operands \cup {NoOperand}, y \in Operands \cup {NoOperand} : SameValue(x, y)

SpecSame == InitData /\ [][NextSame]_vars

\* Properties defined and deleted inside and outside skipped sections.
NextDel ==
  \/ NewObject
  \/ \E d \in {Desc(Seven, "T", NoVal, NoVal, "T", "T"), SevenReadOnly} :
       DefineP(d, FALSE)
  \/ \E t \in BOOLEAN : DeleteP(t)
  \/ \E len \in 1..MaxBody : ProcessInSkippedMode(len, FALSE)
  \/ SkipStmtComplete
  \/ SkipReturn
  \/ \E u \in BOOLEAN : SkipCatch(u)

SpecDel == InitData /\ [][NextDel]_vars

\* The conversions on NaN, the infinities and the numbers around 0, half
\* the modulus and the modulus, of either sign, with and without fraction.
NumberInputs ==
  {NumberInput("nan", 1, 0, FALSE)}
    \cup {NumberInput("inf", s, 0, FALSE) : s \in {1, 0 - 1}}
    \cup {NumberInput("num", s, m, f) :
            s \in {1, 0 - 1}, m \in 0..(Modulus + 2), f \in BOOLEAN}

NextConv == \E u \in BOOLEAN, x \in NumberInputs : Convert(u, x)

SpecConv == InitData /\ [][NextConv]_vars

\* Nodes visited inside and outside skipped sections, nested or not.
NextVisit ==
  \/ \E n \in 1..MaxNodes : SetVisited(n)
  \/ \E len \in 1..MaxBody : ProcessInSkippedMode(len, FALSE)
  \/ SkipStmtComplete
  \/ SkipReturn

SpecVisit == InitData /\ [][NextVisit]_vars

\* Numeric literals of several nodes processed one after the other.
Literals == {0, 7, 8}

NextRule == \E a \in 1..MaxNodes, v \in Literals : ProcessNumber(a, v)

SpecRule == InitData /\ [][NextRule]_vars

\* Objects with a property of every kind, made non-extensible and tested.
NextSealed ==
  \/ NewObject
  \/ \E d \in ObjInputs \cup {Desc(Seven, "T", NoVal, NoVal, "T", "F"),
                             Desc(NoVal, "U", FunctionType(1), NoVal, "T", "F")} :
       DefineP(d, FALSE)
  \/ PreventExtensions
  \/ \E frozen \in BOOLEAN : ObjectIsSealedOrFrozen(frozen)

SpecSealed == InitData /\ [][NextSealed]_vars

\* Assignments to a property of a primitive, with the property defined on
\* the wrapper's prototype in every way.
NextPrim ==
  \/ NewObject
  \/ \E d \in {Desc(NumberType(7, Cur), "T", NoVal, NoVal, "T", "T"),
               Desc(NumberType(7, Cur), "F", NoVal, NoVal, "T", "T"),
               Desc(NoVal, "U", FunctionType(1), FunctionType(1), "T", "T"),
               Desc(NoVal, "U", FunctionType(1), NoVal, "T", "T")} : DefineP(d, FALSE)
  \/ \E t \in BOOLEAN : PutValuePrimitive(t)
  \/ enterTryCatch
  \/ exitTryCatch

SpecPrim == Init /\ [][NextPrim]_vars

\* Function names the engine may invoke: the five API names, and names that
\* differ from them by a token before, after or in place of a dot.
InvokedNames ==
  UNION {{FullName(n), << "x" >> \o FullName(n), FullName(n) \o << "x" >>,
          << "Titanium", "x", "API", ".", n >>, << "Ti", ".", "API", ".", n >>,
          << "Titanium", ".", "API", ".", n, ".", "call" >>} : n \in ApiNames}
    \cup {<< "Titanium", ".", "API", ".", "trace" >>, << "Titanium", ".", "API" >>}

NextPlugin ==
  \E g \in BOOLEAN, name \in InvokedNames, thisVal \in {1, 2},
     args \in {<< >>, << 7 >>} : InvokeNamed(g, name, thisVal, args)

SpecPlugin == InitData /\ [][NextPlugin]_vars

\* Objects created with a prototype, and property lookups along the chain.
NextChain ==
  \/ \E proto \in {ObjectProto, ArrayProto} : CreateObject(proto)
  \/ \E proto \in ObjectValues \cup {UnknownProto, NullProto, [kind |-> "Number", id |-> 0]} :
       Construct(proto)
  \/ \E o \in ObjectValues \cup {NullProto} : ObjectCreate(o)
  \/ \E id \in 1..MaxObjects : DefineOn(id)
  \/ \E id \in 1..MaxObjects : GetProperty(id)

SpecChain == InitData /\ [][NextChain]_vars

\* ============================================================== properties
\* Each property reads the record `last` that the operation just performed
\* has left, and the state the operation has produced.

\* C1: a call of FunctionType.callFunction, of EvalFunction.callFunction or
\* of a wrapNativeCall wrapper leaves the context stack with the depth and
\* the entries it had before the call, whether the call returns or throws
\* after the new context was pushed.
C1_ContextStackRestored ==
  last.exit.kind \in {"call", "eval", "native"}
    => last.exit.after = last.exit.before

\* C2: while skipped mode is active a variable write and a property write
\* store under alternateValues[section] and leave the primary slot as it
\* was, so that when the section ends every binding and the property read
\* back (non-alternate) as before it started and no primary binding or
\* property has appeared.
C2_SkippedWritesDiverted ==
  /\ (last.write.valid /\ last.write.skipped /\ last.write.raise = "none")
       => /\ last.write.after.value = last.write.before.value
          /\ last.write.section \in DOMAIN last.write.after.alt
  /\ (last.def.valid /\ last.def.skipped /\ last.def.raise = "none")
       => /\ last.def.after.exists = last.def.before.exists
          /\ last.def.after.value = last.def.before.value
  /\ last.skip.valid
       => /\ last.skip.primAfter = last.skip.primBefore
          /\ last.skip.sameObj => last.skip.objAfter = last.skip.objBefore

\* C3: while the try/catch counter is non-zero, a call of
\* handleRecoverableNativeException throws the native exception, whatever
\* the options are.
C3_ThrowsInsideTryCatch ==
  (last.handle.valid /\ last.handle.inTry) => last.handle.outcome = "thrown"

\* C4: every exit of processInSkippedMode (return, swallowed exception,
\* rethrown exception) leaves the skipped-mode stack of every environment
\* record as it was before the call.
C4_SkipStacksRestored ==
  last.skip.valid => last.skip.skipAfter = last.skip.skipBefore

\* C5: an engine exception raised by the closure of processInSkippedMode
\* does not leave processInSkippedMode unless the rule processor is in
\* recursion unroll; when swallowed, processInSkippedMode returns normally
\* and no exception is in flight.
C5_EngineExceptionSwallowed ==
  /\ (last.skip.valid /\ last.skip.excIn = "engine" /\ ~last.skip.unroll)
       => last.skip.out = "return" /\ pending = NoPending
  /\ (last.skip.valid /\ last.skip.excIn = "engine" /\ last.skip.out = "throw")
       => last.skip.unroll

\* C5, the case: an engine exception was raised in the closure outside
\* recursion unroll and processInSkippedMode has returned.
C5_Swallowed ==
  /\ last.skip.valid /\ last.skip.excIn = "engine" /\ ~last.skip.unroll
  /\ last.skip.out = "return"

\* C6: while a sentinel of the engine is in flight, Runtime._exception holds
\* the object given to the throwException call that raised that sentinel.
C6_ExceptionSlotMatchesSentinel ==
  pending.kind = "engine" => exception = pending.exc

\* C7: outside skipped mode, setMutableBinding on a mutable binding stores
\* Unknown in the primary slot when v is Unknown, when the value of the
\* binding is not local or when the block is ambiguous, and v otherwise.
C7_StoresUnknownOrValue ==
  (last.write.valid /\ ~last.write.skipped /\ last.write.before.isMutable
     /\ last.write.raise = "none")
    => IF \/ type(last.write.v) = "Unknown"
          \/ ~last.write.local
          \/ last.write.amb
       THEN type(getBindingValue(last.write.after)) = "Unknown"
       ELSE getBindingValue(last.write.after) = last.write.v

\* C7, the case: x = 7 in an ambiguous block of a function, x declared in
\* the enclosing scope; x reads back as Unknown.
C7_SevenInAmbiguousBlock ==
  /\ last.write.valid /\ ~last.write.skipped /\ last.write.amb
  /\ last.write.v = NumberType(7, Cur)
  /\ Len(contextStack) > 1
  /\ ~envs[currentLexEnv(World)].x.exists
  /\ type(getBindingValue(envs[1].x)) = "Unknown"

C9_DefinitionsStoreUnknown ==
  (last.def.valid /\ last.def.amb /\ ~last.def.skipped /\ last.def.ret
     /\ last.def.raise = "none"
     /\ IF last.def.op = "put"
        THEN \/ ~last.def.before.exists
             \/ /\ isDataDescriptor(last.def.before.value)
                /\ ~sameValue(last.def.before.value.value, last.def.v)
        ELSE \/ ~last.def.before.exists
             \/ ~sameValue(last.def.before.value.value, last.def.desc.value)
             \/ ~sameValue(last.def.before.value.get, last.def.desc.get)
             \/ ~sameValue(last.def.before.value.set, last.def.desc.set))
    => /\ last.def.after.exists
       /\ type(last.def.after.value.value) = "Unknown"

C11_OutcomeFollowsCompletion ==
  (last.exit.kind = "call" /\ last.body.valid
     /\ last.body.how \in {"normal", "return", "throw"})
    => /\ last.exit.after = last.exit.before
       /\ CASE last.body.how = "normal" ->
                 last.exit.how = "return" /\ last.exit.res = "Undefined"
            [] last.body.how = "return" ->
                 last.exit.how = "return" /\ last.exit.res = "Value"
            [] last.body.how = "throw" ->
                 last.exit.how = "throw"

\* C12: when the engine declines to invoke a function, the call yields
\* Unknown and every statement of the body has been processed in skipped
\* mode.
C12_DeclinedBodySkipped ==
  (last.body.valid /\ last.body.how = "declined")
    => /\ last.exit.how = "return" /\ last.exit.res = "Unknown"
       /\ \A k \in 1..last.body.len : last.body.log[k].s >= 1

C14_PutOnReadOnly ==
  (/\ last.def.valid /\ last.def.op = "put" /\ ~last.def.skipped
   /\ last.def.before.exists
   /\ isDataDescriptor(last.def.before.value)
   /\ last.def.before.value.writable = "F"
   /\ last.def.before.value.value = NumberType(7, 1)
   /\ last.def.v.val = 8)
    => IF ~last.def.strict
       THEN /\ last.def.after = last.def.before
            /\ last.def.reports = 0 /\ last.def.raise = "none"
       ELSE IF options.exactMode
       THEN last.def.raise = "engine" /\ last.def.after = last.def.before
       ELSE IF options.nativeExceptionRecovery
       THEN last.def.reports = 1 /\ last.def.raise = "none"
       ELSE last.def.raise = "engine"

\* C15: when the observer of a propertySet, propertyDefined or
\* propertyDeleted event runs, the stored property already is what the
\* reported operation leaves.
C15_EventAfterOperation ==
  (last.def.valid /\ last.def.fired /\ last.def.raise = "none")
    => last.def.seen = last.def.after

\* The case C16 is about: defineOwnProperty("p", {value: v, writable: true,
\* enumerable: true, configurable: true}) has returned.
FullDefinition ==
  /\ last.def.valid /\ last.def.op = "define" /\ last.def.raise = "none"
  /\ last.def.desc.value # NoVal
  /\ last.def.desc.writable = "T" /\ last.def.desc.enumerable = "T"
  /\ last.def.desc.configurable = "T"
  /\ last.def.desc.get = NoVal /\ last.def.desc.set = NoVal

\* The object was frozen when the call was made: not extensible, and its
\* property, if any, neither configurable nor writable.
WasFrozen ==
  /\ ~last.def.extensible
  /\ last.def.before.exists
       => /\ last.def.before.value.configurable # "T"
          /\ last.def.before.value.writable # "T"

\* C16 (as stated): on an object that is not frozen, after
\* defineOwnProperty("p", {value: v, writable, enumerable, configurable all
\* true}) returns, get("p") returns v.
C16_GetReturnsDefined ==
  (FullDefinition /\ ~WasFrozen) => last.def.got = last.def.closed

\* C16 (amended): get("p") returns v when the call returned true for a known
\* local value outside ambiguous blocks and skipped mode, and "p" did not
\* already hold the same descriptor with an equal value.
C16_GetReturnsAccepted ==
  ( /\ FullDefinition /\ ~WasFrozen
    /\ last.def.ret /\ ~last.def.amb /\ ~last.def.skipped /\ last.def.local
    /\ type(last.def.v) # "Unknown"
    /\ ~(last.def.before.exists /\ sameDesc(last.def.before.value, last.def.desc)) )
    => last.def.got = last.def.closed

\* C16 witness: a property holding 8 is redefined with the value 7.
C16_SevenReplacesEight ==
  /\ FullDefinition /\ ~WasFrozen
  /\ last.def.ret /\ ~last.def.amb /\ ~last.def.skipped /\ last.def.local
  /\ last.def.before.exists /\ last.def.before.value.value = Eight
  /\ last.def.v = Seven /\ last.def.got = Seven

\* C17: on an object that is not extensible and does not own "p", every
\* defineOwnProperty("p", desc) returns false and leaves the object without
\* an own property "p".
C17_NoNewPropertyWhenNotExtensible ==
  ( /\ last.def.valid /\ last.def.op = "define" /\ last.def.raise = "none"
    /\ ~last.def.extensible /\ ~last.def.before.exists )
    => ~last.def.ret /\ ~last.def.after.exists

\* C18: the descriptor stored for "p" is a data descriptor or an accessor
\* descriptor, exactly one of the two, and carries no field of the other
\* kind.
C18_DataOrAccessor ==
  obj.p.exists
    => /\ isDataDescriptor(obj.p.value) # isAccessorDescriptor(obj.p.value)
       /\ isDataDescriptor(obj.p.value)
            => obj.p.value.get = NoVal /\ obj.p.value.set = NoVal
       /\ isAccessorDescriptor(obj.p.value)
            => obj.p.value.value = NoVal /\ obj.p.value.writable = "U"

\* C19: the array's defineOwnProperty touches length only after the base
\* method succeeded: a rejected definition leaves length as it was, and an
\* accepted one of an integer name at or beyond length makes length that
\* name plus one.
C19_LengthFollowsBaseResult ==
  (last.arr.valid /\ last.arr.raise = "none")
    => IF ~last.arr.ret
       THEN last.arr.lenAfter = last.arr.lenBefore
       ELSE ReachesLength(last.arr.index, last.arr.lenBefore)
              => /\ type(last.arr.lenAfter) = "Number"
                 /\ last.arr.lenAfter.val = last.arr.index + 1

LargestEver == CHOOSE m \in obj.ever : \A k \in obj.ever : k <= m

\* C20: the length of an array is one plus the largest integer name ever
\* defined on it, 0 when there is none.  Arrays whose length was written
\* directly (new Array(n), array.length = n) are left out of the reading
\* checked here.
C20_LengthIsOnePastLargestIndex ==
  (obj.className = "Array" /\ ~obj.lengthWritten)
    => /\ type(getLength(World, obj)) = "Number"
       /\ getLength(World, obj).val =
            IF obj.ever = {} THEN 0 ELSE LargestEver + 1

\* C21 (as stated): after the array's defineOwnProperty of the integer name
\* i returns, the value of length is a number greater than i.
C21_LengthExceedsIndex ==
  (last.arr.valid /\ last.arr.raise = "none")
    => type(last.arr.lenAfter) = "Number" /\ last.arr.lenAfter.val > last.arr.index

\* C21 (amended): the same, for a call made outside skipped mode on an
\* array whose length is a known number.
C21_KnownLengthExceedsIndex ==
  ( /\ last.arr.valid /\ last.arr.raise = "none" /\ ~last.arr.skipped
    /\ type(last.arr.lenBefore) = "Number" )
    => type(last.arr.lenAfter) = "Number" /\ last.arr.lenAfter.val > last.arr.index

\* C21 witness: the name 2 is defined on an array of length 1, and the
\* base method accepts it.
C21_LengthRaisedToThree ==
  /\ last.arr.valid /\ last.arr.raise = "none" /\ last.arr.ret /\ ~last.arr.skipped
  /\ last.arr.index = 2 /\ last.arr.lenBefore = NumberType(1, Cur)
  /\ type(last.arr.lenAfter) = "Number" /\ last.arr.lenAfter.val = 3

\* C22: once an immutable binding is initialised, no setMutableBinding and
\* no initializeImmutableBinding changes the value getBindingValue returns.
C22_ImmutableValueKept ==
  ( /\ last.write.valid /\ last.write.before.exists
    /\ ~last.write.before.isMutable /\ last.write.before.isInitialized = "T" )
    => getBindingValue(last.write.after) = getBindingValue(last.write.before)

\* C23: in global code, the declaration of a function whose name is a
\* non-configurable, non-writable property of the global object throws a
\* TypeError and leaves the property as it was.
C23_RedeclarationRejected ==
  ( /\ last.def.valid /\ last.def.op = "declare"
    /\ last.def.before.exists /\ isDataDescriptor(last.def.before.value)
    /\ last.def.before.value.configurable # "T"
    /\ last.def.before.value.writable # "T" )
    => last.def.raise = "engine" /\ last.def.after = last.def.before

\* C24: a syntax error in source given to eval or to the Function
\* constructor is recovered (reported, Unknown as the result) exactly when
\* nativeExceptionRecovery is on, exactMode is off and no try/catch is
\* active; in every other case it is thrown as a SyntaxError.
C24_ParseErrorRecoveredOrThrown ==
  last.parse.valid
    => IF options.nativeExceptionRecovery /\ ~options.exactMode /\ ~last.parse.inTry
       THEN last.parse.outcome = "recovered"
       ELSE last.parse.outcome = "thrown"

\* C25: when get("p") finds an accessor descriptor with a getter, it calls
\* the getter exactly once with the object get was called on as the this
\* value, returns what the getter returns (undefined for the getters of the
\* model) and fires one propertyReferenced event.
C25_GetterCalledOnReceiver ==
  ( /\ last.ref.valid /\ last.ref.raise = "none"
    /\ isAccessorDescriptor(last.ref.desc)
    /\ last.ref.desc.get # NoVal /\ type(last.ref.desc.get) # "Undefined" )
    => /\ last.ref.calls = 1
       /\ last.ref.thisVal = "receiver"
       /\ type(last.ref.value) = "Undefined"
       /\ last.ref.events = 1

\* C26: a call of Math.random, Date.now, Date, new Date, Date.parse or
\* Date.UTC returns Unknown when exactMode is off; when exactMode is on it
\* returns a concrete value and does not fail.
C26_HostFunctionsConcreteInExactMode ==
  last.host.valid =>
    IF options.exactMode
      THEN last.host.raise = "none" /\ type(last.host.value) \notin {"Unknown", "None"}
      ELSE last.host.raise = "none" /\ type(last.host.value) = "Unknown"

\* The objectPrototype reached from ref in k steps.
RECURSIVE PrototypeAt(_, _, _)
PrototypeAt(store, ref, k) ==
  IF k = 0 THEN ref ELSE PrototypeAt(store, objectPrototype(store, ref), k - 1)

C28_AmbiguousAndSkippedIndependent ==
  last.amb.valid =>
    /\ last.amb.skipAfter = last.amb.skipBefore
    /\ last.amb.ambAfter = last.amb.ambBefore

\* C29: when an ambiguous block is left, the _ambiguousBlock counter of the
\* context in which it was entered is back at the value it had before the
\* entry.
C29_CounterRestoredOnExit ==
  last.amb.valid =>
    last.amb.ambAfter[last.amb.ctx] = last.amb.ambBefore[last.amb.ctx]

\* C30: for every value x of every type, strictEquals(x, x) returns true
\* exactly when x is not the Number NaN.
C30_StrictEqualsReflexiveExceptNaN ==
  (last.eq.valid /\ last.eq.x = last.eq.y) =>
    (last.eq.result = "true" <=> ~(type(last.eq.x) = "Number" /\ last.eq.x.nan))

\* C31: sameValue returns true for two Numbers that are both NaN and false
\* for +0 compared with -0.
C31_SameValueAtZeroAndNaN ==
  (last.same.valid /\ type(last.same.x) = "Number" /\ type(last.same.y) = "Number") =>
    /\ (last.same.x.nan /\ last.same.y.nan) => last.same.result
    /\ ( /\ ~last.same.x.nan /\ ~last.same.y.nan
         /\ last.same.x.n = 0 /\ last.same.y.n = 0
         /\ last.same.x.neg # last.same.y.neg ) => ~last.same.result

\* C32: with globalsOnly no override is registered; otherwise one override
\* per name in {debug, error, info, log, warn}, the override of n matches a
\* function name exactly when the name is Titanium.API.n, and its
\* callFunction returns what console.n returns for the same thisVal and args.
C32_OverridesDelegateToConsole ==
  last.plugin.valid =>
    IF last.plugin.globalsOnly
      THEN last.plugin.registered = {} /\ last.plugin.matched = {}
      ELSE /\ last.plugin.registered = ApiNames
           /\ \A n \in ApiNames :
                n \in last.plugin.matched <=> last.plugin.name = FullName(n)
           /\ last.plugin.results =
                {consoleCall(n, last.plugin.thisVal, last.plugin.args) :
                   n \in last.plugin.matched}

\* Titanium.API.warn is invoked with arguments and delegated to console.warn.
C32_WarnDelegated ==
  /\ last.plugin.valid /\ ~last.plugin.globalsOnly
  /\ last.plugin.name = FullName("warn")
  /\ last.plugin.args = << 7 >>
  /\ last.plugin.results = {consoleCall("warn", last.plugin.thisVal, << 7 >>)}

\* C33: a delete performed in skipped mode leaves the property's primary
\* descriptor in place and unchanged.
C33_DeleteDivertedInSkippedMode ==
  ( /\ last.def.valid /\ last.def.op = "delete" /\ last.def.skipped
    /\ last.def.before.exists )
    => /\ last.def.after.exists
       /\ last.def.after.value = last.def.before.value

\* C34: when an existing property is redefined with a generic descriptor,
\* outside skipped mode and ambiguous blocks, its value and writable flag
\* (or its get and set) are afterwards what they were before.
C34_GenericKeepsValueAndWritable ==
  ( /\ last.def.valid /\ last.def.op = "define" /\ last.def.raise = "none"
    /\ ~last.def.skipped /\ ~last.def.amb
    /\ isGenericDescriptor(last.def.desc)
    /\ last.def.before.exists )
    => /\ last.def.after.exists
       /\ last.def.after.value.value = last.def.before.value.value
       /\ last.def.after.value.writable = last.def.before.value.writable
       /\ last.def.after.value.get = last.def.before.value.get
       /\ last.def.after.value.set = last.def.before.value.set

\* C35: the array's defineOwnProperty returns true when the base method
\* returned true for the same arguments and false when it rejected the
\* definition.
C35_ArrayDefineReturnsBaseResult ==
  (last.arr.valid /\ last.arr.raise = "none") =>
    last.arr.returned = (IF last.arr.ret THEN "true" ELSE "false")

\* C36: putValue on a property of a primitive, where the name resolves on
\* the wrapper's prototype to an accessor with a setter, calls the setter
\* exactly once and ends without an error.
C36_PrimitiveBaseSetterCalled ==
  ( /\ last.prim.valid
    /\ isAccessorDescriptor(last.prim.inherited)
    /\ last.prim.inherited.set # NoVal
    /\ type(last.prim.inherited.set) # "Undefined" )
    => last.prim.calls = 1 /\ last.prim.raise = "none"

\* C37: Object.isFrozen(o) is true only if o is not extensible and its
\* property is not configurable and, when a data property, not writable;
\* Object.isSealed(o) is true only if o is not extensible and its property
\* is not configurable.
C37_SealedAndFrozenTests ==
  (last.sealed.valid /\ last.sealed.result) =>
    /\ ~obj.extensible
    /\ obj.p.exists =>
         /\ obj.p.value.configurable # "T"
         /\ (last.sealed.frozen /\ isDataDescriptor(obj.p.value))
              => obj.p.value.writable # "T"

\* C38: for every Number, toInt32 returns an integer from -2^31 to 2^31 - 1
\* and toUint32 an integer from 0 to 2^32 - 1 (2^Bits in place of 2^32).
C38_ConversionsInRange ==
  last.conv.valid =>
    IF last.conv.unsigned
      THEN last.conv.result \in 0..(Modulus - 1)
      ELSE last.conv.result \in (0 - Modulus \div 2)..(Modulus \div 2 - 1)

\* C39: after any sequence of setVisited calls, in any interleaving of normal
\* and skipped mode, no node is marked both _visited and _skipped; a
\* skipped-mode call on a node already visited leaves it not skipped, and a
\* normal-mode call leaves the node visited and not skipped.
C39_NeverVisitedAndSkipped ==
  /\ \A n \in 1..MaxNodes :
       ~(obj.ast[n].visited = "true" /\ obj.ast[n].skipped = "true")
  /\ last.visit.valid =>
       /\ obj.ast[last.visit.node] = last.visit.after
       /\ (last.visit.skippedMode /\ last.visit.before.visited = "true")
            => last.visit.after = [visited |-> "true", skipped |-> "false"]
       /\ ~last.visit.skippedMode
            => last.visit.after = [visited |-> "true", skipped |-> "false"]

\* A normal-mode visit has cleared the skipped mark of a node while another
\* node, visited before, went through skipped-mode processing unmarked.
C39_SkippedMarkCleared ==
  /\ last.visit.valid
  /\ ~last.visit.skippedMode
  /\ last.visit.before = [visited |-> "undefined", skipped |-> "true"]
  /\ last.visit.after = [visited |-> "true", skipped |-> "false"]
  /\ \E n \in 1..MaxNodes :
       /\ n # last.visit.node
       /\ obj.ast[n] = [visited |-> "true", skipped |-> "false"]

\* C40: processing an AST_Number node emits exactly two rule events, in this
\* order: the pre-evaluation event (processingComplete false, no result),
\* then the post-evaluation event (processingComplete true) whose result is
\* the very NumberType object the rule returns, holding the literal's value.
C40_TwoRuleEventsInOrder ==
  last.rule.valid =>
    LET log == last.rule.log
        b   == last.rule.before
    IN  /\ Len(log) = b + 2
        /\ log[b + 1].ast = last.rule.ast
        /\ log[b + 1].processingComplete = FALSE
        /\ log[b + 1].result = NoResult
        /\ log[b + 2].ast = last.rule.ast
        /\ log[b + 2].processingComplete = TRUE
        /\ log[b + 2].result = last.rule.returned
        /\ last.rule.returned.id # 0
        /\ type(last.rule.returned.value) = "Number"
        /\ last.rule.returned.value.val = last.rule.literal

\* The literal 7 has been processed after another literal: four events are
\* in the log, the last one carrying Number(7).
C40_SecondLiteralProcessed ==
  /\ last.rule.valid
  /\ last.rule.before = 2
  /\ last.rule.literal = 7
  /\ Len(last.rule.log) = 4
  /\ last.rule.log[4].result.value.val = 7
  /\ last.rule.log[2].result.value.val # 7

====
